---- MODULE Spec2Model ----
(***************************************************************************)
(* LowDbConnector (src/src/lowdb.ts): the embedded document store of       *)
(* datap.  One collection of one connector is modelled: its backing file,  *)
(* the handle cache (#collections), the handles JSONFilePreset returns     *)
(* (data and the writer behind write()), and the calls in flight, each at  *)
(* one of its await points.                                                *)
(*                                                                         *)
(* Scheduling.  Every operation starts with `await this.collection(coll)`. *)
(* When the handle is cached the promise is already resolved and the rest  *)
(* of the operation, up to `await db.write()` or its return, runs as a     *)
(* microtask: before any I/O completion, and in call order.  When the file *)
(* has to be loaded, the rest runs right after the load completes.  So an  *)
(* operation is one step (cached), or a load followed by one step; the     *)
(* completion of the write is a step of its own.                           *)
(*                                                                         *)
(* A document is a function from field names to values.  _id, id, key and  *)
(* email hold strings, v, a and b hold numbers, addr holds a nested        *)
(* mapping, createdAt and updatedAt hold a timestamp: [date |-> t] is a    *)
(* Date object of instant t, [iso |-> t] the ISO string JSON.stringify     *)
(* turns it into.                                                          *)
(***************************************************************************)
EXTENDS Integers, Sequences, FiniteSets, TLC

\* Number of mutating calls made on the connector in one behaviour.
MaxMutations == 2
\* Number of read-only calls made on the connector in one behaviour.
MaxReads == 1
\* Number of calls in flight at a time.
MaxInFlight == 2
\* Last instant the clock reaches.
MaxTime == 2
\* Number of close() calls made in one behaviour.
MaxCloses == 1

VARIABLES
  file,       \* content of <dbPath>/<name>.json: a sequence of documents
  cache,      \* #collections[name]: index of the cached handle, 0 when none
  handles,    \* the handles JSONFilePreset has returned, in creation order
  calls,      \* the calls made so far, in call order
  clock,      \* the last value new Date() returned
  oid,        \* number of ObjectIds generated
  closes,     \* number of close() calls made
  named,      \* a connector used for several collections: files, #collections
              \* and handles by collection name, and the calls made
  mongo       \* a MongoConnector: #mongoClient, the connect() and db() calls

vars == <<file, cache, handles, calls, clock, oid, closes, named, mongo>>

NoHandle == 0

\* The collection names the callers of the two-collection connector pass.
Names == {"x", "y"}

\* #collections = {} of a connector no call has been made on, with no file
\* in dbPath.
NoneNamed ==
  [files |-> [n \in Names |-> <<>>], cache |-> [n \in Names |-> NoHandle],
   handles |-> <<>>, calls |-> <<>>]

\* new MongoConnector(url, dbName): #mongoClient = null; no connect() or db()
\* call has been made, no close() either.
NewMongo == [client |-> 0, connects |-> 0, calls |-> <<>>, closes |-> 0]

(***************************************************************************)
(* Values and documents                                                    *)
(***************************************************************************)
TimeFields == {"createdAt", "updatedAt"}
NumFields == {"v", "a", "b"}
\* Fields that hold an object other than a Date (a nested mapping).
CompoundFields == {"addr"}

Date(t) == [date |-> t]
Iso(t) == [iso |-> t]
IsDate(x) == "date" \in DOMAIN x
\* The instant of a timestamp, whichever form it has.
TimeOf(x) == IF IsDate(x) THEN x.date ELSE x.iso

EmptyDoc == <<>>

Has(doc, f) == f \in DOMAIN doc

\* JavaScript truthiness of doc[f] (a missing field is undefined).
Truthy(doc, f) ==
  /\ Has(doc, f)
  /\ IF f \in TimeFields THEN TRUE
     ELSE IF f \in NumFields THEN doc[f] # 0
     ELSE doc[f] # ""

\* { ...a, ...b }
Spread(a, b) == b @@ a

\* const { _id, id, ...restDoc } = doc
Omit(doc, fs) == [f \in (DOMAIN doc) \ fs |-> doc[f]]

\* a[f] === b[f], both fields present: objects (Dates, nested mappings) are
\* equal only by reference, and no two documents or arguments share one.
StrictEq(f, x, y) ==
  IF f \in TimeFields THEN ~IsDate(x) /\ ~IsDate(y) /\ x = y
  ELSE IF f \in CompoundFields THEN FALSE
  ELSE x = y

\* typeof x === "object" && x !== null, for a value x of field f
IsObject(f, x) == f \in CompoundFields \/ (f \in TimeFields /\ IsDate(x))

\* new ObjectId().toString(), the n-th one generated
ObjectIdStr(n) == "o" \o ToString(n)

\* JSON.stringify then JSON.parse of one document: a Date becomes its ISO
\* string.
JsonDoc(doc) ==
  [f \in DOMAIN doc |->
     IF f \in TimeFields /\ IsDate(doc[f]) THEN Iso(doc[f].date) ELSE doc[f]]

\* What the file holds after writing data, as JSONFilePreset reads it back.
ToJSON(data) == [i \in 1..Len(data) |-> JsonDoc(data[i])]

\* Array.prototype.findIndex, 1-based, 0 standing for -1: the first of the
\* indexes whose items pass the test.
FindIndex(passing) ==
  IF passing = {} THEN 0 ELSE CHOOSE i \in passing : \A j \in passing : i <= j

(***************************************************************************)
(* #matchQuery.  A query maps fields to conditions; a condition is a plain *)
(* value, Plain(x), or an operator object, Ops(o), o mapping operator      *)
(* names to operands.                                                      *)
(***************************************************************************)
Plain(x) == [plain |-> TRUE, val |-> x]
Ops(o) == [plain |-> FALSE, ops |-> o]

\* The relational operators with a missing field read as 0.
RelUndefinedAsZero(doc, key, op, y) ==
  LET x == IF ~Has(doc, key) THEN 0
           ELSE IF key \in TimeFields THEN TimeOf(doc[key]) ELSE doc[key]
      z == IF key \in TimeFields THEN TimeOf(y) ELSE y
  IN CASE op = "$gt" -> x > z
       [] op = "$gte" -> x >= z
       [] op = "$lt" -> x < z
       [] op = "$lte" -> x <= z

\* doc[key] <op> operand for the relational operators; a comparison with
\* undefined is false.  Two Dates compare by instant and two ISO strings
\* alike; a Date against an ISO string compares a number with NaN, which is
\* false.
Rel(doc, key, op, y) ==
  /\ Has(doc, key)
  /\ key \in TimeFields => IsDate(doc[key]) = IsDate(y)
  /\ LET x == IF key \in TimeFields THEN TimeOf(doc[key]) ELSE doc[key]
         z == IF key \in TimeFields THEN TimeOf(y) ELSE y
     IN CASE op = "$gt" -> x > z
          [] op = "$gte" -> x >= z
          [] op = "$lt" -> x < z
          [] op = "$lte" -> x <= z

\* value.$in.includes(doc[key])
Includes(list, doc, key) ==
  Has(doc, key) /\ \E i \in 1..Len(list) : StrictEq(key, doc[key], list[i])

\* A plain value that is an object takes the operator branch like an
\* operator object (345); the objects of the model have no field named like
\* an operator, and no query of the model has $regex.
matchCond(doc, key, cond) ==
  IF cond.plain /\ ~IsObject(key, cond.val)
  THEN Has(doc, key) /\ StrictEq(key, doc[key], cond.val)
  ELSE LET o == IF cond.plain THEN EmptyDoc ELSE cond.ops IN
    /\ Has(o, "$eq") => (Has(doc, key) /\ StrictEq(key, doc[key], o["$eq"]))
    /\ Has(o, "$ne") => ~(Has(doc, key) /\ StrictEq(key, doc[key], o["$ne"]))
    /\ Has(o, "$gt") => Rel(doc, key, "$gt", o["$gt"])
    /\ Has(o, "$gte") => Rel(doc, key, "$gte", o["$gte"])
    /\ Has(o, "$lt") => Rel(doc, key, "$lt", o["$lt"])
    /\ Has(o, "$lte") => Rel(doc, key, "$lte", o["$lte"])
    /\ Has(o, "$in") => Includes(o["$in"], doc, key)
    /\ Has(o, "$nin") => ~Includes(o["$nin"], doc, key)

\* #matchQuery with the conditions or-ed.
matchQueryAny(doc, query) ==
  \E key \in DOMAIN query : matchCond(doc, key, query[key])

matchQuery(doc, query) ==
  \A key \in DOMAIN query : matchCond(doc, key, query[key])

\* #matchQuery with the query argument as the caller gave it: a sequence of
\* no query (undefined, 339) or one.
matches(doc, query) == query = <<>> \/ matchQuery(doc, query[1])

\* Array.prototype.filter: the items at the passing indexes, in order.
Filter(data, passing) ==
  [j \in 1..Cardinality(passing) |->
     data[CHOOSE i \in passing : Cardinality({k \in passing : k <= i}) = j]]

(***************************************************************************)
(* The sort of find and findOne.  A sort specification is the sequence of  *)
(* its <<field, order>> entries in key order.                              *)
(***************************************************************************)
\* String(doc[f]): of a missing field "undefined", of a number its decimal
\* digits.  The callers of the model sort on _id and on number fields.
String(doc, f) ==
  IF ~Has(doc, f) THEN "undefined"
  ELSE IF f \in NumFields THEN ToString(doc[f])
  ELSE doc[f]

\* The strings the model sorts, in the order String.prototype.localeCompare
\* puts them: digits before letters, character by character, a prefix
\* before its extensions.
Collation ==
  << "0", "1", "10", "2", "3", "4", "5", "6", "7", "8", "9",
     "a", "b", "c", "o0", "o1", "o2", "o3", "undefined", "zz" >>

Rank(str) == CHOOSE i \in 1..Len(Collation) : Collation[i] = str

Sign(n) == IF n < 0 THEN -1 ELSE IF n > 0 THEN 1 ELSE 0

\* x.localeCompare(y)
localeCompare(x, y) == Sign(Rank(x) - Rank(y))

\* The comparator of lowdb.ts 108-114 and 146-152 on two documents.
compare(a, b, sortField, sortOrder) ==
  IF sortOrder = -1
  THEN localeCompare(String(b, sortField), String(a, sortField))
  ELSE localeCompare(String(a, sortField), String(b, sortField))

\* The item at j goes before the item at i when the comparator gave r for
\* them: the sort is stable.
Ahead(r, j, i) == r < 0 \/ (r = 0 /\ j < i)

\* Array.prototype.sort with that comparator.  Only the first key of the
\* specification is read (Object.keys(sort)[0]); with no key every
\* comparison is of "undefined" with "undefined" and the order stays.
sort(items, spec) ==
  IF spec = <<>> THEN items
  ELSE [p \in 1..Len(items) |->
          items[CHOOSE i \in 1..Len(items) :
                  Cardinality({j \in 1..Len(items) :
                     Ahead(compare(items[j], items[i], spec[1][1], spec[1][2]),
                           j, i)}) = p - 1]]

(***************************************************************************)
(* Inputs the callers pass                                                 *)
(***************************************************************************)
CreateDocs ==
  { [v |-> 1, updatedAt |-> Date(9)],
    [_id |-> "a", v |-> 2] }

CreateLists == { << [v |-> 1], [_id |-> "a", v |-> 2] >> }

UpdateDocs ==
  { [_id |-> "a", v |-> 1, createdAt |-> Date(9), updatedAt |-> Date(0)],
    [v |-> 3] }

Queries == { [v |-> Plain(1)] }

\* updateMany's (query, patch) pairs
Updates ==
  { <<[v |-> Plain(1)], [_id |-> "b", createdAt |-> Date(9), updatedAt |-> Date(0)]>> }

UpsertDocs ==
  { [_id |-> "a", v |-> 1],
    [key |-> "email", email |-> "x", v |-> 1],
    [key |-> "email", email |-> "x", _id |-> "b", createdAt |-> Date(9)] }

Ids == { "a", "o1" }

DeleteIds == { "a" }

\* What the backing file holds when the connector is constructed: nothing,
\* or documents an earlier run has written.
Stored(id, fields) ==
  Spread(fields, [_id |-> id, createdAt |-> Iso(0), updatedAt |-> Iso(1)])

InitFiles ==
  { <<>>,
    << Stored("o0", [v |-> 1, email |-> "x"]), Stored("a", [v |-> 2]) >> }

(***************************************************************************)
(* The operations on the in-memory sequence.  Each gives, for the sequence *)
(* data, the clock reading now and n ObjectIds generated so far: the new   *)
(* sequence, the result, whether db.write() is awaited, the number of      *)
(* ObjectIds generated, whether new Date() was read and whether the call   *)
(* returns (ok) or throws.                                                 *)
(***************************************************************************)
MutatingOps ==
  { "createOne", "createMany", "updateOne", "updateMany", "upsertOne",
    "deleteOne", "deleteMany" }

NoResult ==
  [ids |-> <<>>, inserted |-> 0, matched |-> 0, modified |-> 0, upserted |-> 0,
   deleted |-> 0, found |-> <<>>, count |-> 0]

Outcome(data, res, write, oids, timed) ==
  [data |-> data, res |-> res, write |-> write, oids |-> oids,
   timed |-> timed, ok |-> TRUE]

IdIs(item, id) == Has(item, "_id") /\ item["_id"] = id

\* data.findIndex((item) => item._id === id)
IdIndex(data, id) == FindIndex({i \in 1..Len(data) : IdIs(data[i], id)})

\* { ...doc, _id: doc._id || new ObjectId().toString(), createdAt: now,
\*   updatedAt: now }
NewDoc(doc, now, n) ==
  Spread(doc,
    [_id |-> IF Truthy(doc, "_id") THEN doc["_id"] ELSE ObjectIdStr(n),
     createdAt |-> Date(now), updatedAt |-> Date(now)])

\* The merge with the stamp spread first: the caller's updatedAt survives.
MergeStampFirst(old, doc, now) ==
  Spread(Spread(old, [updatedAt |-> Date(now)]), doc)

\* { ...data[index], ...doc, updatedAt: now }
Merge(old, doc, now) ==
  Spread(Spread(old, doc), [updatedAt |-> Date(now)])

createOne(data, doc, now, n) ==
  LET newDoc == NewDoc(doc, now, n + 1)
  IN Outcome(Append(data, newDoc), [NoResult EXCEPT !.ids = <<newDoc["_id"]>>],
             TRUE, IF Truthy(doc, "_id") THEN 0 ELSE 1, TRUE)

\* createMany that puts the new documents before the existing ones.
createManyInFront(data, docs, now, n) ==
  LET Gen(i) == Cardinality({j \in 1..i : ~Truthy(docs[j], "_id")})
      newDocs == [i \in 1..Len(docs) |-> NewDoc(docs[i], now, n + Gen(i))]
  IN Outcome(newDocs \o data,
             [NoResult EXCEPT !.ids = [i \in 1..Len(docs) |-> newDocs[i]["_id"]],
                              !.inserted = Len(docs)],
             TRUE, Gen(Len(docs)), TRUE)

createMany(data, docs, now, n) ==
  LET Gen(i) == Cardinality({j \in 1..i : ~Truthy(docs[j], "_id")})
      newDocs == [i \in 1..Len(docs) |-> NewDoc(docs[i], now, n + Gen(i))]
  IN Outcome(data \o newDocs,
             [NoResult EXCEPT !.ids = [i \in 1..Len(docs) |-> newDocs[i]["_id"]],
                              !.inserted = Len(docs)],
             TRUE, Gen(Len(docs)), TRUE)

findById(data, id) ==
  LET i == IdIndex(data, id)
  IN Outcome(data, [NoResult EXCEPT !.found = IF i = 0 THEN <<>> ELSE <<data[i]>>],
             FALSE, 0, FALSE)

\* if (sort) { results.sort(...) }
Sorted(items, sortArg) ==
  IF sortArg # <<>> THEN sort(items, sortArg[1]) ELSE items

\* if (skip > 0) results = results.slice(skip)
Skipped(items, skip) ==
  IF skip > 0 THEN SubSeq(items, skip + 1, Len(items)) ELSE items

\* if (limit > 0) results = results.slice(0, limit)
Limited(items, limit) ==
  IF limit > 0 /\ limit < Len(items) THEN SubSeq(items, 1, limit) ELSE items

\* find that limits before it skips.
findLimitFirst(data, query, limit, skip, sortArg) ==
  Outcome(data,
    [NoResult EXCEPT !.found =
       Skipped(Limited(Sorted(
         Filter(data, {i \in 1..Len(data) : matches(data[i], query)}),
         sortArg), limit), skip)],
    FALSE, 0, FALSE)

\* find that sorts db.data itself and saves it.
findAndSave(data, query, limit, skip, sortArg) ==
  Outcome(Sorted(data, sortArg),
    [NoResult EXCEPT !.found =
       Limited(Skipped(Sorted(
         Filter(data, {i \in 1..Len(data) : matches(data[i], query)}),
         sortArg), skip), limit)],
    TRUE, 0, FALSE)

\* find(coll, query, limit, skip, sort): query and sort are sequences of no
\* value (the argument is undefined) or one.
find(data, query, limit, skip, sortArg) ==
  Outcome(data,
    [NoResult EXCEPT !.found =
       Limited(Skipped(Sorted(
         Filter(data, {i \in 1..Len(data) : matches(data[i], query)}),
         sortArg), skip), limit)],
    FALSE, 0, FALSE)

\* matches.length === 0 ? null : (matches.sort(...), matches[0])
FirstOrNull(items, spec) ==
  IF items = <<>> THEN <<>> ELSE <<sort(items, spec)[1]>>

\* findOne whose default sort is { _id: 1 }.
findOneOldest(data, query, sortArg) ==
  Outcome(data,
    [NoResult EXCEPT !.found =
       FirstOrNull(Filter(data, {i \in 1..Len(data) : matches(data[i], query)}),
                   IF sortArg = <<>> THEN << <<"_id", 1>> >> ELSE sortArg[1])],
    FALSE, 0, FALSE)

\* findOne(coll, query, sort = { _id: -1 }): found holds the document, or
\* nothing for null.
findOne(data, query, sortArg) ==
  Outcome(data,
    [NoResult EXCEPT !.found =
       FirstOrNull(Filter(data, {i \in 1..Len(data) : matches(data[i], query)}),
                   IF sortArg = <<>> THEN << <<"_id", -1>> >> ELSE sortArg[1])],
    FALSE, 0, FALSE)

\* updateOne that spreads the whole argument, _id and id included.
updateOneWholeDoc(data, doc, now) ==
  LET documentId == IF Truthy(doc, "_id") THEN doc["_id"] ELSE doc["id"]
      index == IdIndex(data, documentId)
  IN IF ~(Truthy(doc, "_id") \/ Truthy(doc, "id"))
     THEN [Outcome(data, NoResult, FALSE, 0, FALSE) EXCEPT !.ok = FALSE]
     ELSE IF index = 0
     THEN Outcome(data, NoResult, FALSE, 0, FALSE)
     ELSE Outcome([data EXCEPT ![index] = Merge(@, doc, now)],
                  [NoResult EXCEPT !.matched = 1, !.modified = 1],
                  TRUE, 0, TRUE)

\* updateOne without the throw: a missing id counts as an id that is not
\* found.
updateOneNoThrow(data, doc, now) ==
  LET restDoc == Omit(doc, {"_id", "id"})
      index == IF Truthy(doc, "_id") THEN IdIndex(data, doc["_id"])
               ELSE IF Truthy(doc, "id") THEN IdIndex(data, doc["id"])
               ELSE 0
  IN IF index = 0
     THEN Outcome(data, NoResult, FALSE, 0, FALSE)
     ELSE Outcome([data EXCEPT ![index] = Merge(@, restDoc, now)],
                  [NoResult EXCEPT !.matched = 1, !.modified = 1],
                  TRUE, 0, TRUE)

updateOne(data, doc, now) ==
  LET restDoc == Omit(doc, {"_id", "id"})
      documentId == IF Truthy(doc, "_id") THEN doc["_id"] ELSE doc["id"]
      index == IdIndex(data, documentId)
  IN IF ~(Truthy(doc, "_id") \/ Truthy(doc, "id"))
     THEN \* throw new Error("Either _id or id must be provided")
          [Outcome(data, NoResult, FALSE, 0, FALSE) EXCEPT !.ok = FALSE]
     ELSE IF index = 0
     THEN Outcome(data, NoResult, FALSE, 0, FALSE)
     ELSE Outcome([data EXCEPT ![index] = Merge(@, restDoc, now)],
                  [NoResult EXCEPT !.matched = 1, !.modified = 1],
                  TRUE, 0, TRUE)

\* updateMany that stops at the first match.
updateManyFirstOnly(data, query, doc, now) ==
  LET index == FindIndex({i \in 1..Len(data) : matchQuery(data[i], query)})
      hit == IF index = 0 THEN {} ELSE {index}
  IN Outcome([i \in 1..Len(data) |->
                IF i \in hit THEN Merge(data[i], doc, now) ELSE data[i]],
             [NoResult EXCEPT !.matched = Cardinality(hit),
                              !.modified = Cardinality(hit)],
             TRUE, 0, TRUE)

updateMany(data, query, doc, now) ==
  LET hit == {i \in 1..Len(data) : matchQuery(data[i], query)}
  IN Outcome([i \in 1..Len(data) |->
                IF i \in hit THEN Merge(data[i], doc, now) ELSE data[i]],
             [NoResult EXCEPT !.matched = Cardinality(hit),
                              !.modified = Cardinality(hit)],
             TRUE, 0, TRUE)

upsertOne(data, doc, now, n) ==
  LET byId == IF Truthy(doc, "_id") THEN IdIndex(data, doc["_id"]) ELSE 0
      keyField == doc["key"]
      byKey == IF Truthy(doc, "key") /\ Truthy(doc, keyField)
               THEN FindIndex({i \in 1..Len(data) :
                      /\ Has(data[i], keyField)
                      /\ StrictEq(keyField, data[i][keyField], doc[keyField])})
               ELSE 0
      index == IF byId # 0 THEN byId ELSE byKey
      newDoc == NewDoc(doc, now, n + 1)
  IN IF index # 0
     THEN Outcome([data EXCEPT ![index] = Merge(@, doc, now)],
                  [NoResult EXCEPT !.matched = 1, !.modified = 1],
                  TRUE, 0, TRUE)
     ELSE Outcome(Append(data, newDoc),
                  [NoResult EXCEPT !.ids = <<newDoc["_id"]>>, !.upserted = 1],
                  TRUE, IF Truthy(doc, "_id") THEN 0 ELSE 1, TRUE)

\* deleteOne that reports a deletion when it found nothing.
deleteOneAlwaysOne(data, id) ==
  LET index == IdIndex(data, id)
  IN IF index = 0
     THEN Outcome(data, [NoResult EXCEPT !.deleted = 1], FALSE, 0, FALSE)
     ELSE Outcome([i \in 1..(Len(data) - 1) |->
                     IF i < index THEN data[i] ELSE data[i + 1]],
                  [NoResult EXCEPT !.deleted = 1], TRUE, 0, FALSE)

\* deleteOne that fills the hole with the last document.
deleteOneSwapLast(data, id) ==
  LET index == IdIndex(data, id)
  IN IF index = 0
     THEN Outcome(data, NoResult, FALSE, 0, FALSE)
     ELSE Outcome([i \in 1..(Len(data) - 1) |->
                     IF i = index THEN data[Len(data)] ELSE data[i]],
                  [NoResult EXCEPT !.deleted = 1], TRUE, 0, FALSE)

deleteOne(data, id) ==
  LET index == IdIndex(data, id)
  IN IF index = 0
     THEN Outcome(data, NoResult, FALSE, 0, FALSE)
     ELSE Outcome([i \in 1..(Len(data) - 1) |->
                     IF i < index THEN data[i] ELSE data[i + 1]],
                  [NoResult EXCEPT !.deleted = 1], TRUE, 0, FALSE)

\* deleteMany that removes the first match only.
deleteManyFirstOnly(data, query) ==
  LET index == FindIndex({i \in 1..Len(data) : matchQuery(data[i], query)})
      kept == IF index = 0 THEN data
              ELSE [i \in 1..(Len(data) - 1) |->
                      IF i < index THEN data[i] ELSE data[i + 1]]
  IN Outcome(kept, [NoResult EXCEPT !.deleted = Len(data) - Len(kept)],
             TRUE, 0, FALSE)

deleteMany(data, query) ==
  LET Keep(item) == ~matchQuery(item, query)
      kept == SelectSeq(data, Keep)
  IN Outcome(kept, [NoResult EXCEPT !.deleted = Len(data) - Len(kept)],
             TRUE, 0, FALSE)

\* count that ignores its query.
countAll(data, query) == Len(data)

\* count(coll, query?) on the sequence: the optional query is a sequence of
\* no query (undefined) or one.
count(data, query) ==
  IF query = <<>> THEN Len(data)
  ELSE Cardinality({i \in 1..Len(data) : matchQuery(data[i], query[1])})

\* The operation a call stands for, applied to data.
Apply(call, data, now, n) ==
  CASE call.op = "createOne" -> createOne(data, call.doc, now, n)
    [] call.op = "createMany" -> createMany(data, call.docs, now, n)
    [] call.op = "findById" -> findById(data, call.id)
    [] call.op = "find" ->
         find(data, call.query, call.limit, call.skip, call.sort)
    [] call.op = "findOne" -> findOne(data, call.query, call.sort)
    [] call.op = "count" ->
         Outcome(data, [NoResult EXCEPT !.count = count(data, call.query)],
                 FALSE, 0, FALSE)
    [] call.op = "updateOne" -> updateOne(data, call.doc, now)
    [] call.op = "updateMany" -> updateMany(data, call.query, call.doc, now)
    [] call.op = "upsertOne" -> upsertOne(data, call.doc, now, n)
    [] call.op = "deleteOne" -> deleteOne(data, call.id)
    [] call.op = "deleteMany" -> deleteMany(data, call.query)

(***************************************************************************)
(* Handles and calls                                                       *)
(***************************************************************************)
\* What JSONFilePreset returns: data, and the writer behind write().  The
\* writer puts one snapshot on disk at a time (cur); a write() made
\* meanwhile replaces the pending snapshot (next).
NewHandle(data) ==
  [data |-> data, locked |-> FALSE, cur |-> <<>>, next |-> <<>>]

\* db.data = data; db.write() up to its first suspension
StartWrite(handle, data) ==
  IF handle.locked
  THEN [handle EXCEPT !.data = data, !.next = <<ToJSON(data)>>]
  ELSE [handle EXCEPT !.data = data, !.locked = TRUE, !.cur = ToJSON(data)]

InFlight(c) == calls[c].pc \notin {"done", "failed"}

\* A call as it is made.  pc is the await it is suspended at, during the
\* calls that had not returned when it was made.
NewCall(op, doc, docs, id, query) ==
  [op |-> op, doc |-> doc, docs |-> docs, id |-> id, query |-> query,
   limit |-> 0, skip |-> 0, sort |-> <<>>,
   pc |-> "loading", h |-> NoHandle, buf |-> <<>>, w |-> "none",
   res |-> NoResult,
   during |-> {c \in 1..Len(calls) : InFlight(c)}]

\* new Date(): the clock never goes back.
ClockReads == {t \in {clock, clock + 1} : t <= MaxTime}

\* Call c runs on handle h from the resolution of
\* `await this.collection(coll)` to `await db.write()`, its return or its
\* throw; hs and cs are handles and calls as they are when it starts.
Run(c, h, hs, cs) ==
  \E now \in ClockReads :
    LET r == Apply(cs[c], hs[h].data, now, oid)
    IN /\ r.timed \/ now = clock
       /\ clock' = now
       /\ oid' = oid + r.oids
       /\ handles' = IF r.write THEN [hs EXCEPT ![h] = StartWrite(@, r.data)]
                     ELSE hs
       /\ calls' =
            [cs EXCEPT ![c] =
               IF ~r.ok THEN [@ EXCEPT !.pc = "failed", !.buf = <<>>]
               ELSE IF r.write
               THEN [@ EXCEPT !.pc = "writing", !.h = h, !.buf = <<>>,
                              !.res = r.res,
                              !.w = IF hs[h].locked THEN "next" ELSE "head"]
               ELSE [@ EXCEPT !.pc = "done", !.buf = <<>>, !.res = r.res]]

\* collection(name), lowdb.ts 34-38, then the operation: with a cached
\* handle the operation runs on it; otherwise JSONFilePreset starts to load
\* the file.
Invoke(call) ==
  /\ Cardinality({c \in 1..Len(calls) : (calls[c].op \in MutatingOps)
                                          = (call.op \in MutatingOps)})
       < (IF call.op \in MutatingOps THEN MaxMutations ELSE MaxReads)
  /\ Cardinality({c \in 1..Len(calls) : InFlight(c)}) < MaxInFlight
  /\ IF cache # NoHandle
     THEN Run(Len(calls) + 1, cache, handles, Append(calls, call))
     ELSE /\ calls' = Append(calls, call)
          /\ UNCHANGED <<handles, clock, oid>>
  /\ UNCHANGED <<file, cache, closes, named, mongo>>

CreateOne(doc) == Invoke(NewCall("createOne", doc, <<>>, "", EmptyDoc))
CreateMany(docs) == Invoke(NewCall("createMany", EmptyDoc, docs, "", EmptyDoc))
FindById(id) == Invoke(NewCall("findById", EmptyDoc, <<>>, id, EmptyDoc))
UpdateOne(doc) == Invoke(NewCall("updateOne", doc, <<>>, "", EmptyDoc))
UpdateMany(query, doc) == Invoke(NewCall("updateMany", doc, <<>>, "", query))
UpsertOne(doc) == Invoke(NewCall("upsertOne", doc, <<>>, "", EmptyDoc))
DeleteOne(id) == Invoke(NewCall("deleteOne", EmptyDoc, <<>>, id, EmptyDoc))
DeleteMany(query) == Invoke(NewCall("deleteMany", EmptyDoc, <<>>, "", query))

\* close(): this.#collections = {}
Close ==
  /\ closes < MaxCloses
  /\ cache # NoHandle
  /\ cache' = NoHandle
  /\ closes' = closes + 1
  /\ UNCHANGED <<file, handles, calls, clock, oid, named, mongo>>

\* JSONFilePreset reads the file (a missing file reads as []) some time
\* before it resolves.  The file changes only when a write in flight lands,
\* so with no write in flight the read is taken with LoadDone.
LoadRead(c) ==
  /\ c \in 1..Len(calls)
  /\ calls[c].pc = "loading"
  /\ \E h \in 1..Len(handles) : handles[h].locked
  /\ calls' = [calls EXCEPT ![c].pc = "loaded", ![c].buf = file]
  /\ UNCHANGED <<file, cache, handles, clock, oid, closes, named, mongo>>

\* this.#collections[name] = await JSONFilePreset(...);
\* return this.#collections[name];  and the operation goes on with the
\* handle returned.
LoadDone(c) ==
  /\ c \in 1..Len(calls)
  /\ calls[c].pc \in {"loading", "loaded"}
  /\ cache' = Len(handles) + 1
  /\ Run(c, Len(handles) + 1,
         Append(handles,
           NewHandle(IF calls[c].pc = "loaded" THEN calls[c].buf ELSE file)),
         calls)
  /\ UNCHANGED <<file, closes, named, mongo>>

\* The write of handle h reaches the disk.  The callers whose snapshot it
\* was return; the caller that started the writer returns when nothing is
\* pending any more.
WriteDone(h) ==
  /\ h \in 1..Len(handles)
  /\ handles[h].locked
  /\ file' = handles[h].cur
  /\ LET more == handles[h].next # <<>>
     IN /\ handles' =
             [handles EXCEPT ![h] =
                IF more THEN [@ EXCEPT !.cur = handles[h].next[1], !.next = <<>>]
                ELSE [@ EXCEPT !.locked = FALSE, !.cur = <<>>]]
        /\ calls' =
             [c \in 1..Len(calls) |->
                IF calls[c].pc = "writing" /\ calls[c].h = h
                THEN IF calls[c].w = "prev" \/ (calls[c].w = "head" /\ ~more)
                     THEN [calls[c] EXCEPT !.pc = "done", !.w = "none"]
                     ELSE IF calls[c].w = "next"
                     THEN [calls[c] EXCEPT !.w = "prev"]
                     ELSE calls[c]
                ELSE calls[c]]
  /\ UNCHANGED <<cache, clock, oid, closes, named, mongo>>

Init ==
  /\ file \in InitFiles
  /\ cache = NoHandle
  /\ handles = <<>>
  /\ calls = <<>>
  /\ clock = 1
  /\ oid = 0
  /\ closes = 0
  /\ named = NoneNamed
  /\ mongo = NewMongo

Next ==
  \/ \E doc \in CreateDocs : CreateOne(doc)
  \/ \E docs \in CreateLists : CreateMany(docs)
  \/ \E id \in Ids : FindById(id)
  \/ \E doc \in UpdateDocs : UpdateOne(doc)
  \/ \E u \in Updates : UpdateMany(u[1], u[2])
  \/ \E doc \in UpsertDocs : UpsertOne(doc)
  \/ \E id \in DeleteIds : DeleteOne(id)
  \/ \E query \in Queries : DeleteMany(query)
  \/ Close
  \/ \E c \in 1..Len(calls) : LoadRead(c)
  \/ \E c \in 1..Len(calls) : LoadDone(c)
  \/ \E h \in 1..Len(handles) : WriteDone(h)

Spec == Init /\ [][Next]_vars

(***************************************************************************)
(* A caller that awaits each call before it makes the next one:            *)
(*   await low.createOne(...); await low.updateOne(...); ...               *)
(* The steps of a call are the same as above; no call is made while        *)
(* another is in flight, and the connector is not closed.                  *)
(***************************************************************************)
\* Number of calls the caller makes in one behaviour.
MaxAwaited == 2

AwaitedFiles ==
  InitFiles \cup
  { << Stored("a", [v |-> 0, email |-> "y"]),
       Stored("b", [v |-> 1, email |-> "x"]),
       Stored("c", [v |-> 1]) >> }

AwaitedCreateLists ==
  CreateLists \cup
  { <<>>,
    << [_id |-> "", v |-> 3], [v |-> 4, createdAt |-> Date(9)] >> }

AwaitedUpdateDocs ==
  UpdateDocs \cup
  { [id |-> "a", email |-> "z"],
    [_id |-> "", id |-> "b", v |-> 7],
    [_id |-> "zz", v |-> 5] }

AwaitedQueries ==
  Queries \cup { EmptyDoc, [v |-> Ops([o \in {"$gte"} |-> 1])] }

\* updateMany's (query, patch) pairs
AwaitedUpdates ==
  Updates \cup
  { <<EmptyDoc, [v |-> 9]>>,
    <<[v |-> Ops([o \in {"$gte"} |-> 1])], [email |-> "q", updatedAt |-> Date(0)]>>,
    <<[v |-> Plain(7)], [v |-> 9]>> }

AwaitedUpsertDocs ==
  UpsertDocs \cup
  { [_id |-> "a", key |-> "email", email |-> "x", v |-> 7],
    [key |-> "v", v |-> 0, email |-> "z"],
    [v |-> 7] }

AwaitedIds == { "a", "zz" }

\* `await low.<op>(...)` made when the previous call has returned: up to
\* the first suspension of the operation.
Await(call) ==
  /\ \A c \in 1..Len(calls) : ~InFlight(c)
  /\ Len(calls) < MaxAwaited
  /\ IF cache # NoHandle
     THEN Run(Len(calls) + 1, cache, handles, Append(calls, call))
     ELSE /\ calls' = Append(calls, call)
          /\ UNCHANGED <<handles, clock, oid>>
  /\ UNCHANGED <<file, cache, closes, named, mongo>>

AwaitedCreateOne(doc) == Await(NewCall("createOne", doc, <<>>, "", EmptyDoc))
AwaitedCreateMany(docs) == Await(NewCall("createMany", EmptyDoc, docs, "", EmptyDoc))
AwaitedUpdateOne(doc) == Await(NewCall("updateOne", doc, <<>>, "", EmptyDoc))
AwaitedUpdateMany(query, doc) == Await(NewCall("updateMany", doc, <<>>, "", query))
AwaitedUpsertOne(doc) == Await(NewCall("upsertOne", doc, <<>>, "", EmptyDoc))
AwaitedDeleteOne(id) == Await(NewCall("deleteOne", EmptyDoc, <<>>, id, EmptyDoc))
AwaitedDeleteMany(query) == Await(NewCall("deleteMany", EmptyDoc, <<>>, "", query))
\* A sort specification for the reads of this caller.
AwaitedSorts == { << <<"v", -1>> >> }
AwaitedFind(srt) ==
  Await([NewCall("find", EmptyDoc, <<>>, "", <<>>) EXCEPT !.sort = <<srt>>])
AwaitedFindOne(srt) ==
  Await([NewCall("findOne", EmptyDoc, <<>>, "", <<>>) EXCEPT !.sort = <<srt>>])

AwaitedInit ==
  /\ file \in AwaitedFiles
  /\ cache = NoHandle
  /\ handles = <<>>
  /\ calls = <<>>
  /\ clock = 1
  /\ oid = 0
  /\ closes = 0
  /\ named = NoneNamed
  /\ mongo = NewMongo

AwaitedNext ==
  \/ \E doc \in CreateDocs : AwaitedCreateOne(doc)
  \/ \E docs \in AwaitedCreateLists : AwaitedCreateMany(docs)
  \/ \E doc \in AwaitedUpdateDocs : AwaitedUpdateOne(doc)
  \/ \E u \in AwaitedUpdates : AwaitedUpdateMany(u[1], u[2])
  \/ \E doc \in AwaitedUpsertDocs : AwaitedUpsertOne(doc)
  \/ \E id \in AwaitedIds : AwaitedDeleteOne(id)
  \/ \E query \in AwaitedQueries : AwaitedDeleteMany(query)
  \/ \E srt \in AwaitedSorts : AwaitedFind(srt)
  \/ \E srt \in AwaitedSorts : AwaitedFindOne(srt)
  \/ \E c \in 1..Len(calls) : LoadDone(c)
  \/ \E h \in 1..Len(handles) : WriteDone(h)

AwaitedSpec == AwaitedInit /\ [][AwaitedNext]_vars

(***************************************************************************)
(* A caller that reads: find, findOne, findById and count on a collection  *)
(* an earlier run has written.                                             *)
(***************************************************************************)
\* Number of read calls the caller makes in one behaviour.
MaxQueries == 1

ReadFiles ==
  InitFiles \cup
  { << Stored("a", [v |-> 9, email |-> "x"]),
       Stored("b", [v |-> 10]),
       Stored("c", [v |-> 2, email |-> "x"]) >>,
    << Stored("b", [a |-> 1, b |-> 2]),
       Stored("a", [a |-> 1, b |-> 1]),
       Stored("c", [a |-> 0, b |-> 3]) >>,
    << Stored("a", [v |-> 3]),
       Stored("b", [email |-> "x"]),
       Stored("c", [v |-> 1]) >>,
    << Stored("a", [addr |-> [city |-> "X"]]),
       Stored("b", [addr |-> [city |-> "Y"]]),
       Stored("c", [v |-> 1]) >> }

\* Operator objects on the number field v.
ReadOps ==
  { ("$eq" :> 9), ("$ne" :> 9), ("$gt" :> 2), ("$gte" :> 9), ("$lt" :> 9),
    ("$lte" :> 9), ("$in" :> <<2, 9>>), ("$nin" :> <<2, 9>>),
    ("$gt" :> 2) @@ ("$lt" :> 10),
    ("$gte" :> 2) @@ ("$ne" :> 9) @@ ("$nin" :> <<3>>),
    ("$foo" :> 1),
    ("$foo" :> 1) @@ ("$lte" :> 3) }

ReadQueries ==
  { EmptyDoc,
    [v |-> Plain(9)],
    [a |-> Plain(1)],
    [email |-> Plain("x")],
    [v |-> Plain(2), email |-> Plain("x")],
    [v |-> Ops(("$gte" :> 2)), email |-> Ops(("$ne" :> "x"))],
    [email |-> Ops(("$in" :> <<"x", "y">>))],
    [addr |-> Plain([city |-> "X"])] }
  \cup { [v |-> Ops(o)] : o \in ReadOps }

\* A query argument: undefined, or a query.
ReadQueryArgs == { <<>> } \cup { <<query>> : query \in ReadQueries }

\* A sort argument: undefined, or a sort specification.
ReadSortArgs ==
  { <<>>,
    << <<>> >>,
    << << <<"v", 1>> >> >>,
    << << <<"v", -1>> >> >>,
    << << <<"_id", 1>> >> >>,
    << << <<"a", 1>>, <<"b", 1>> >> >>,
    << << <<"a", -1>>, <<"b", -1>> >> >> }

ReadLimits == { 0, 1, 2 }
ReadSkips == { 0, 1, 4 }

\* find's arguments: every query unsorted and unpaged, every sort on the
\* absent query, and skip and limit with three of the sorts on two queries.
ReadFindArgs ==
  { [query |-> q, limit |-> 0, skip |-> 0, sort |-> <<>>] : q \in ReadQueryArgs }
  \cup { [query |-> <<>>, limit |-> 0, skip |-> 0, sort |-> srt] :
           srt \in ReadSortArgs }
  \cup { [query |-> q, limit |-> l, skip |-> k, sort |-> srt] :
           q \in { <<>>, <<[v |-> Ops(("$gte" :> 2))]>> },
           l \in ReadLimits, k \in ReadSkips,
           srt \in { <<>>, << <<>> >>, << << <<"v", 1>> >> >> } }

\* findOne's arguments: every query with the default sort, and every sort
\* on three of the queries.
ReadFindOneArgs ==
  { [query |-> q, sort |-> <<>>] : q \in ReadQueryArgs }
  \cup { [query |-> q, sort |-> srt] :
           q \in { <<>>, <<EmptyDoc>>, <<[v |-> Ops(("$gte" :> 2))]>> },
           srt \in ReadSortArgs }

\* A read call made when the previous call has returned.
Read(call) ==
  /\ Len(calls) < MaxQueries
  /\ Await(call)

ReadFind(args) ==
  Read([NewCall("find", EmptyDoc, <<>>, "", args.query)
          EXCEPT !.limit = args.limit, !.skip = args.skip, !.sort = args.sort])
ReadFindOne(args) ==
  Read([NewCall("findOne", EmptyDoc, <<>>, "", args.query)
          EXCEPT !.sort = args.sort])
ReadFindById(id) == Read(NewCall("findById", EmptyDoc, <<>>, id, EmptyDoc))
ReadCount(query) == Read(NewCall("count", EmptyDoc, <<>>, "", query))

ReadInit ==
  /\ file \in ReadFiles
  /\ cache = NoHandle
  /\ handles = <<>>
  /\ calls = <<>>
  /\ clock = 1
  /\ oid = 0
  /\ closes = 0
  /\ named = NoneNamed
  /\ mongo = NewMongo

ReadNext ==
  \/ \E args \in ReadFindArgs : ReadFind(args)
  \/ \E args \in ReadFindOneArgs : ReadFindOne(args)
  \/ \E id \in AwaitedIds : ReadFindById(id)
  \/ \E query \in ReadQueryArgs : ReadCount(query)
  \/ \E c \in 1..Len(calls) : LoadDone(c)

ReadSpec == ReadInit /\ [][ReadNext]_vars


(***************************************************************************)
(* Properties                                                              *)
(***************************************************************************)
Returned(c) == calls[c].pc = "done"
Quiet == \A c \in 1..Len(calls) : ~InFlight(c)
\* c2 was made while c1 had not returned.
Overlap(c1, c2) == c1 < c2 /\ c1 \in calls[c2].during
\* The _id a returned createOne reported.
InsertedId(c) == calls[c].res.ids[1]
Holds(data, id) == \E i \in 1..Len(data) : IdIs(data[i], id)
\* Position of the first document with this _id, 0 when there is none.
Pos(data, id) == IdIndex(data, id)
UniqueIds(data) ==
  \A i, j \in 1..Len(data) : data[i]["_id"] = data[j]["_id"] => i = j
OnlyOps(ops) == \A c \in 1..Len(calls) : calls[c].op \in ops

\* C1: when two overlapping createOne calls (and no other call, no close)
\* have both returned, the cached in-memory sequence and the backing file
\* each hold both inserted documents.
C1_NoLostInsert ==
  \A c1, c2 \in 1..Len(calls) :
    ( /\ Len(calls) = 2 /\ closes = 0 /\ cache # NoHandle
      /\ calls[c1].op = "createOne" /\ calls[c2].op = "createOne"
      /\ Overlap(c1, c2) /\ Returned(c1) /\ Returned(c2) )
    => /\ Holds(handles[cache].data, InsertedId(c1))
       /\ Holds(handles[cache].data, InsertedId(c2))
       /\ Holds(file, InsertedId(c1))
       /\ Holds(file, InsertedId(c2))

\* C2: at most one mutating call has modified the in-memory sequence and is
\* still waiting for its write.
C2_OneMutationInFlight ==
  Cardinality({c \in 1..Len(calls) :
                 calls[c].op \in MutatingOps /\ calls[c].pc = "writing"}) <= 1

\* C3: of two overlapping createOne calls, the document of the one called
\* first precedes the document of the other in the in-memory sequence
\* (stated where both documents are there and no _id occurs twice).
C3_CallOrder ==
  \A c1, c2 \in 1..Len(calls) :
    ( /\ closes = 0 /\ cache # NoHandle
      /\ OnlyOps({"createOne", "findById"})
      /\ calls[c1].op = "createOne" /\ calls[c2].op = "createOne"
      /\ Overlap(c1, c2) /\ Returned(c1) /\ Returned(c2)
      /\ UniqueIds(handles[cache].data)
      /\ Holds(handles[cache].data, InsertedId(c1))
      /\ Holds(handles[cache].data, InsertedId(c2)) )
    => Pos(handles[cache].data, InsertedId(c1))
         < Pos(handles[cache].data, InsertedId(c2))

\* C4: with only createOne, createMany and upsertOne calls made, no two
\* documents of an in-memory sequence or of the file have the same _id.
C4_UniqueIds ==
  OnlyOps({"createOne", "createMany", "upsertOne"})
    => /\ UniqueIds(file)
       /\ \A h \in 1..Len(handles) : UniqueIds(handles[h].data)
\* The handles in existence before and after a step, and the steps that
\* keep the length of a handle's sequence: updates, and operations that
\* change nothing.
SameLength(h) ==
  h \in 1..Len(handles) /\ Len(handles'[h].data) = Len(handles[h].data)

\* C5: a step that removes and appends nothing leaves every document's _id
\* as it was.
C5_IdNeverChanges ==
  [][\A h \in 1..Len(handles) :
       SameLength(h) =>
         \A i \in 1..Len(handles[h].data) :
           handles'[h].data[i]["_id"] = handles[h].data[i]["_id"]]_vars

\* C6: when every call has returned, a mutating call among them, the cached
\* in-memory sequence and the backing file hold the same documents.
C6_WriteThrough ==
  ( /\ Quiet /\ closes = 0 /\ cache # NoHandle
    /\ \E c \in 1..Len(calls) :
         calls[c].op \in MutatingOps /\ Returned(c) )
  => ToJSON(handles[cache].data) = file

\* C7: a step that removes and appends nothing leaves every document's
\* createdAt as it was.
C7_CreatedAtNeverChanges ==
  [][\A h \in 1..Len(handles) :
       SameLength(h) =>
         \A i \in 1..Len(handles[h].data) :
           handles'[h].data[i]["createdAt"] = handles[h].data[i]["createdAt"]]_vars

TimesOrdered(data) ==
  \A i \in 1..Len(data) :
    TimeOf(data[i]["createdAt"]) <= TimeOf(data[i]["updatedAt"])

\* C8: in every state every document, in memory and in the file, has
\* createdAt <= updatedAt.
C8_CreatedBeforeUpdated ==
  /\ TimesOrdered(file)
  /\ \A h \in 1..Len(handles) : TimesOrdered(handles[h].data)
\* The sequence a handle holds before a step works on it: its data, or for
\* the handle the step creates, what JSONFilePreset has read.
Before(h) ==
  IF h <= Len(handles) THEN handles[h].data
  ELSE LET c == CHOOSE c \in 1..Len(calls) :
                  /\ calls[c].pc \in {"loading", "loaded"}
                  /\ calls'[c].pc \notin {"loading", "loaded"}
       IN IF calls[c].pc = "loaded" THEN calls[c].buf ELSE file

\* C9: a step that appends or changes documents gives each of them the
\* updatedAt the clock shows, whatever updatedAt the caller passed, and no
\* document's updatedAt goes back.
C9_UpdatedAtIsNow ==
  [][\A h \in 1..Len(handles') :
       LET old == Before(h)
           new == handles'[h].data
       IN Len(new) >= Len(old) =>
            /\ \A i \in 1..Len(new) :
                 (i > Len(old) \/ new[i] # old[i])
                   => new[i]["updatedAt"] = Date(clock')
            /\ \A i \in 1..Len(old) :
                 TimeOf(new[i]["updatedAt"]) >= TimeOf(old[i]["updatedAt"])]_vars

\* An update whose caller passed an updatedAt has stamped its document with
\* the later time the clock showed.
C9_Witness ==
  \E c \in 1..Len(calls) :
    /\ calls[c].op \in {"updateOne", "updateMany"}
    /\ calls[c].pc = "writing"
    /\ Has(calls[c].doc, "updatedAt")
    /\ calls[c].res.modified > 0
    /\ clock = MaxTime
    /\ \E i \in 1..Len(handles[calls[c].h].data) :
         LET d == handles[calls[c].h].data[i]
         IN /\ d["updatedAt"] = Date(clock)
            /\ TimeOf(d["createdAt"]) < clock
            /\ calls[c].doc["updatedAt"] # Date(clock)

\* C10: findById called after a createOne has returned, with the id it
\* reported, finds a document with that _id and the caller's fields (only
\* createOne and findById calls made, the _id generated).
C10_RoundTrip ==
  \A c, r \in 1..Len(calls) :
    ( /\ closes = 0
      /\ OnlyOps({"createOne", "findById"})
      /\ calls[c].op = "createOne" /\ calls[r].op = "findById"
      /\ c < r /\ c \notin calls[r].during
      /\ Returned(c) /\ Returned(r)
      /\ ~Truthy(calls[c].doc, "_id")
      /\ calls[r].id = InsertedId(c) )
    => /\ calls[r].res.found # <<>>
       /\ calls[r].res.found[1]["_id"] = InsertedId(c)
       /\ \A f \in (DOMAIN calls[c].doc) \ TimeFields :
            calls[r].res.found[1][f] = calls[c].doc[f]

\* C11: with no close() made, JSONFilePreset has returned at most one
\* handle for the collection, so every collection() call, overlapping the
\* first load or not, resolved to the same handle object.
C11_OneHandle == closes = 0 => Len(handles) <= 1

\* The step runs the body of call c: from the resolution of
\* `await this.collection(coll)` to its write, return or throw.
Ran(c) ==
  /\ c \in 1..Len(calls')
  /\ calls'[c].pc \in {"writing", "done", "failed"}
  /\ c <= Len(calls) => calls[c].pc \in {"loading", "loaded"}
\* The handle that body works on: the cached one, or the one just loaded.
RanOn(c) == IF c <= Len(calls) THEN Len(handles) + 1 ELSE cache
\* The step leaves call c waiting for a write of the sequence it left.
Persisted(c) ==
  LET hd == handles'[RanOn(c)]
  IN /\ calls'[c].pc = "writing"
     /\ hd.locked
     /\ hd.cur = ToJSON(hd.data) \/ hd.next = <<ToJSON(hd.data)>>
\* newDoc is oldDoc overlaid with the fields of doc, updatedAt apart.
Overlaid(newDoc, oldDoc, doc) ==
  /\ DOMAIN newDoc = DOMAIN oldDoc \cup DOMAIN doc \cup {"updatedAt"}
  /\ \A f \in (DOMAIN doc) \ {"updatedAt"} : newDoc[f] = doc[f]
  /\ \A f \in (DOMAIN oldDoc) \ (DOMAIN doc \cup {"updatedAt"}) :
       newDoc[f] = oldDoc[f]
\* new is old with document i replaced by its overlay with doc.
OneOverlaid(new, old, i, doc) ==
  /\ Len(new) = Len(old)
  /\ Overlaid(new[i], old[i], doc)
  /\ \A j \in 1..Len(old) : j # i => new[j] = old[j]

\* Documents of old whose key field (the field doc.key names) has the value
\* doc has for it.
KeyMatches(old, doc) ==
  IF Has(doc, "key") /\ Has(doc, doc["key"])
  THEN {i \in 1..Len(old) :
          Has(old[i], doc["key"]) /\ old[i][doc["key"]] = doc[doc["key"]]}
  ELSE {}

\* C12: an upsertOne whose _id is that of an existing document overlays
\* that document; otherwise, one whose key field has the value an existing
\* document has for it overlays the first such document; otherwise it
\* appends one document.  An overlay returns matchedCount 1, modifiedCount 1
\* and no upsertedId; an append returns upsertedId, upsertedCount 1 and
\* matchedCount 0.
C12_UpsertResolution ==
  [][\A c \in 1..Len(calls') :
       (Ran(c) /\ calls'[c].op = "upsertOne") =>
         LET doc == calls'[c].doc
             old == Before(RanOn(c))
             new == handles'[RanOn(c)].data
             res == calls'[c].res
             byId == Has(doc, "_id") /\ Holds(old, doc["_id"])
             i == IF byId THEN IdIndex(old, doc["_id"])
                  ELSE FindIndex(KeyMatches(old, doc))
         IN IF byId \/ KeyMatches(old, doc) # {}
            THEN /\ OneOverlaid(new, old, i, doc)
                 /\ res.matched = 1 /\ res.modified = 1
                 /\ res.upserted = 0 /\ res.ids = <<>>
            ELSE /\ Len(new) = Len(old) + 1
                 /\ SubSeq(new, 1, Len(old)) = old
                 /\ res.upserted = 1 /\ res.ids = <<new[Len(new)]["_id"]>>
                 /\ res.matched = 0 /\ res.modified = 0]_vars

\* The documents of data whose field f has the value x.
WithValue(data, f, x) == {i \in 1..Len(data) : Has(data[i], f) /\ data[i][f] = x}

\* C13: when two upsertOne calls with the same key field, the same key
\* value and no _id (and no other call, no close) have returned, the cached
\* in-memory sequence and the file each hold exactly one document with that
\* key value, it has the fields of the call, and the second call did not
\* report an insert.
C13_UpsertIdempotent ==
  \A c1, c2 \in 1..Len(calls) :
    ( /\ Len(calls) = 2 /\ closes = 0 /\ cache # NoHandle
      /\ c1 < c2 /\ Returned(c1) /\ Returned(c2)
      /\ calls[c1].op = "upsertOne" /\ calls[c2].op = "upsertOne"
      /\ calls[c1].doc = calls[c2].doc
      /\ ~Has(calls[c1].doc, "_id") /\ Truthy(calls[c1].doc, "key") )
    => LET doc == calls[c2].doc
           k == doc["key"]
           data == handles[cache].data
       IN /\ Cardinality(WithValue(data, k, doc[k])) = 1
          /\ Cardinality(WithValue(file, k, doc[k])) = 1
          /\ \A i \in WithValue(data, k, doc[k]) : data[i]["v"] = doc["v"]
          /\ calls[c2].res.upserted = 0

\* The step leaves the handle call c ran on as it was: the sequence is
\* unchanged and no write is started.
Untouched(c) ==
  /\ handles'[RanOn(c)].data = Before(RanOn(c))
  /\ IF c <= Len(calls) THEN handles'[RanOn(c)] = NewHandle(Before(RanOn(c)))
     ELSE handles'[RanOn(c)] = handles[RanOn(c)]
  /\ file' = file

\* C14: an upsertOne whose document has no _id and no key entry naming a
\* field of the document throws, and leaves the in-memory sequence and the
\* file as they were.
C14_UpsertNeedsIdOrKey ==
  [][\A c \in 1..Len(calls') :
       ( /\ Ran(c) /\ calls'[c].op = "upsertOne"
         /\ ~Has(calls'[c].doc, "_id")
         /\ ~(Has(calls'[c].doc, "key")
              /\ Has(calls'[c].doc, calls'[c].doc["key"])) )
       => calls'[c].pc = "failed" /\ Untouched(c)]_vars

\* C15: a deleteOne of an id the sequence holds returns deletedCount 1 and
\* leaves no document with that _id, so that a deleteOne that follows finds
\* none; a deleteOne of an id the sequence does not hold returns
\* deletedCount 0 and changes nothing.
C15_DeleteIdempotent ==
  [][\A c \in 1..Len(calls') :
       (Ran(c) /\ calls'[c].op = "deleteOne") =>
         IF Holds(Before(RanOn(c)), calls'[c].id)
         THEN /\ calls'[c].res.deleted = 1
              /\ ~Holds(handles'[RanOn(c)].data, calls'[c].id)
         ELSE /\ calls'[c].res.deleted = 0
              /\ Untouched(c)]_vars

\* C16: an updateOne whose document carries neither _id nor id throws, and
\* leaves the in-memory sequence as it was, with no write started.
C16_UpdateNeedsId ==
  [][\A c \in 1..Len(calls') :
       ( /\ Ran(c) /\ calls'[c].op = "updateOne"
         /\ ~Has(calls'[c].doc, "_id") /\ ~Has(calls'[c].doc, "id") )
       => calls'[c].pc = "failed" /\ Untouched(c)]_vars

\* An updateOne without id has thrown on a loaded, non-empty collection
\* with no write in flight.
C16_Witness ==
  \E c \in 1..Len(calls) :
    /\ calls[c].op = "updateOne" /\ calls[c].pc = "failed"
    /\ ~Has(calls[c].doc, "_id") /\ ~Has(calls[c].doc, "id")
    /\ cache # NoHandle
    /\ Len(handles[cache].data) > 0 /\ ~handles[cache].locked

\* The id an updateOne document gives: its _id, or its id when it has no
\* _id or an empty one.
GivenId(doc) == IF Truthy(doc, "_id") THEN doc["_id"] ELSE doc["id"]
GivesId(doc) == Truthy(doc, "_id") \/ Truthy(doc, "id")

\* C17: an updateOne that gives an id: when the sequence holds a document
\* with that _id, the first such document becomes itself overlaid with the
\* argument's fields other than _id and id, at the same position, every
\* other document is unchanged, a write of the new sequence is started and
\* the result is matchedCount 1, modifiedCount 1; when it holds none, the
\* result is matchedCount 0, modifiedCount 0, the sequence is unchanged and
\* nothing is written.
C17_UpdateOne ==
  [][\A c \in 1..Len(calls') :
       (Ran(c) /\ calls'[c].op = "updateOne" /\ GivesId(calls'[c].doc)) =>
         LET doc == calls'[c].doc
             old == Before(RanOn(c))
             new == handles'[RanOn(c)].data
             res == calls'[c].res
         IN IF Holds(old, GivenId(doc))
            THEN /\ OneOverlaid(new, old, IdIndex(old, GivenId(doc)),
                                Omit(doc, {"_id", "id"}))
                 /\ Persisted(c)
                 /\ res.matched = 1 /\ res.modified = 1
            ELSE /\ calls'[c].pc = "done"
                 /\ Untouched(c)
                 /\ res.matched = 0 /\ res.modified = 0]_vars

\* An updateOne that gave its id in the id field has changed the second of
\* several documents, which has the new field and no id field; and an
\* updateOne of an id the sequence does not hold has returned.
C17_Witness ==
  /\ \E c \in 1..Len(calls) :
       /\ calls[c].op = "updateOne" /\ calls[c].pc = "writing"
       /\ ~Has(calls[c].doc, "_id") /\ Has(calls[c].doc, "id")
       /\ calls[c].res.matched = 1
       /\ LET data == handles[calls[c].h].data
              i == IdIndex(data, calls[c].doc["id"])
          IN /\ i > 1
             /\ data[i]["email"] = calls[c].doc["email"]
             /\ ~Has(data[i], "id")
  /\ \E c \in 1..Len(calls) :
       /\ calls[c].op = "updateOne" /\ calls[c].pc = "done"
       /\ GivesId(calls[c].doc) /\ calls[c].res.matched = 0

\* The positions of the documents of data that match query.
Matching(data, query) == {i \in 1..Len(data) : matchQuery(data[i], query)}

\* C18: an updateMany turns every document that matched the query before
\* the call into itself overlaid with the patch, leaves every other
\* document and the length and order of the sequence as they were, starts
\* one write of the new sequence and returns matchedCount = modifiedCount =
\* the number of documents that matched.
C18_UpdateMany ==
  [][\A c \in 1..Len(calls') :
       (Ran(c) /\ calls'[c].op = "updateMany") =>
         LET old == Before(RanOn(c))
             new == handles'[RanOn(c)].data
             hit == Matching(old, calls'[c].query)
         IN /\ Len(new) = Len(old)
            /\ \A i \in 1..Len(old) :
                 IF i \in hit THEN Overlaid(new[i], old[i], calls'[c].doc)
                 ELSE new[i] = old[i]
            /\ Persisted(c)
            /\ calls'[c].res.matched = Cardinality(hit)
            /\ calls'[c].res.modified = Cardinality(hit)]_vars

\* An updateMany has patched two documents of three, the third did not
\* match; and an updateMany that matched no document of a non-empty
\* sequence has returned after its write.
C18_Witness ==
  /\ \E c \in 1..Len(calls) :
       /\ calls[c].op = "updateMany" /\ calls[c].pc = "writing"
       /\ calls[c].res.matched = 2
       /\ Has(calls[c].doc, "email")
       /\ LET data == handles[calls[c].h].data
          IN /\ Len(data) = 3
             /\ Cardinality(WithValue(data, "email", calls[c].doc["email"])) = 2
  /\ \E c \in 1..Len(calls) :
       /\ calls[c].op = "updateMany" /\ calls[c].pc = "done"
       /\ calls[c].res.matched = 0
       /\ file # <<>>

\* The position in old of the j-th document that is not in hit.
NthKept(old, hit, j) ==
  CHOOSE i \in (1..Len(old)) \ hit :
    Cardinality({k \in 1..i : k \notin hit}) = j

\* C19: a deleteMany leaves the documents that did not match the query
\* before the call, unchanged and in their order, and none that matched;
\* it returns deletedCount = the number that matched, and count with the
\* same query on the sequence it leaves is 0.
C19_DeleteMany ==
  [][\A c \in 1..Len(calls') :
       (Ran(c) /\ calls'[c].op = "deleteMany") =>
         LET old == Before(RanOn(c))
             new == handles'[RanOn(c)].data
             hit == Matching(old, calls'[c].query)
         IN /\ Len(new) = Len(old) - Cardinality(hit)
            /\ \A j \in 1..Len(new) : new[j] = old[NthKept(old, hit, j)]
            /\ Persisted(c)
            /\ calls'[c].res.deleted = Cardinality(hit)
            /\ count(new, <<calls'[c].query>>) = 0]_vars

\* A deleteMany has removed two documents and left two, in a sequence where
\* a kept document stood before and another after the removed ones.
C19_Witness ==
  \E c \in 1..Len(calls) :
    /\ calls[c].op = "deleteMany" /\ calls[c].pc = "writing"
    /\ calls[c].res.deleted = 2
    /\ calls[c].query # EmptyDoc
    /\ Len(handles[calls[c].h].data) = 2
    /\ Len(file) = 4
    /\ matchQuery(file[2], calls[c].query)
    /\ matchQuery(file[3], calls[c].query)

\* C20: a createMany leaves the existing documents where they were and
\* appends after them one document per input document, in input order:
\* each has the input's fields, a non-empty _id (the input's when it gave
\* one) and createdAt = updatedAt = the time of the call.  One write of the
\* new sequence is started, insertedCount is the number of input documents
\* and insertedIds lists the _id of the appended documents in order.
C20_CreateMany ==
  [][\A c \in 1..Len(calls') :
       (Ran(c) /\ calls'[c].op = "createMany") =>
         LET docs == calls'[c].docs
             old == Before(RanOn(c))
             new == handles'[RanOn(c)].data
             res == calls'[c].res
         IN /\ Len(new) = Len(old) + Len(docs)
            /\ SubSeq(new, 1, Len(old)) = old
            /\ \A i \in 1..Len(docs) :
                 LET d == new[Len(old) + i]
                 IN /\ DOMAIN d = DOMAIN docs[i] \cup {"_id", "createdAt", "updatedAt"}
                    /\ \A f \in (DOMAIN docs[i]) \ {"_id", "createdAt", "updatedAt"} :
                         d[f] = docs[i][f]
                    /\ d["_id"] # ""
                    /\ Truthy(docs[i], "_id") => d["_id"] = docs[i]["_id"]
                    /\ d["createdAt"] = Date(clock')
                    /\ d["updatedAt"] = Date(clock')
                    /\ res.ids[i] = d["_id"]
            /\ Persisted(c)
            /\ res.inserted = Len(docs)
            /\ Len(res.ids) = Len(docs)]_vars

\* A createMany of two documents, the first without _id and the second with
\* one, has appended them to a non-empty sequence and waits for its write.
C20_Witness ==
  \E c \in 1..Len(calls) :
    /\ calls[c].op = "createMany" /\ calls[c].pc = "writing"
    /\ calls[c].res.inserted = 2
    /\ ~Truthy(calls[c].docs[1], "_id") /\ Truthy(calls[c].docs[2], "_id")
    /\ LET data == handles[calls[c].h].data
       IN /\ Len(data) > 2
          /\ data[Len(data)]["_id"] = calls[c].docs[2]["_id"]
          /\ calls[c].res.ids = <<data[Len(data) - 1]["_id"], data[Len(data)]["_id"]>>

(***************************************************************************)
(* Reads.  Under ReadSpec nothing but reads runs, so the sequence a        *)
(* returned call worked on is the one the cached handle holds.             *)
(***************************************************************************)
Data == handles[cache].data
Done(c, op) == calls[c].pc = "done" /\ calls[c].op = op
\* A find with no sort, limit or skip.
Unpaged(c) == calls[c].limit = 0 /\ calls[c].skip = 0 /\ calls[c].sort = <<>>

\* C21: a find with no sort, limit or skip returns the documents of the
\* collection for which every field condition of the query holds, in
\* collection order, and every document when the query is empty or absent.
C21_FindUnpaged ==
  \A c \in 1..Len(calls) :
    (Done(c, "find") /\ Unpaged(c)) =>
      LET q == calls[c].query
          hit == IF q = <<>> THEN 1..Len(Data)
                 ELSE {i \in 1..Len(Data) :
                         \A key \in DOMAIN q[1] : matchCond(Data[i], key, q[1][key])}
          found == calls[c].res.found
      IN /\ Len(found) = Cardinality(hit)
         /\ \A j \in 1..Len(found) :
              found[j] = Data[NthKept(Data, (1..Len(Data)) \ hit, j)]
         /\ (q = <<>> \/ q = <<EmptyDoc>>) => found = Data

\* A find on two fields has returned the one document of three that meets
\* both conditions, and it is not the first of the collection.
C21_Witness ==
  \E c \in 1..Len(calls) :
    /\ Done(c, "find") /\ Unpaged(c)
    /\ calls[c].query # <<>>
    /\ Cardinality(DOMAIN calls[c].query[1]) = 2
    /\ Len(Data) = 3
    /\ calls[c].res.found = <<Data[3]>>
    /\ \E i \in 1..2 : matchCond(Data[i], "email", calls[c].query[1]["email"])

\* C22: a find whose query gives a field a nested mapping as plain value
\* returns the documents whose field is deeply equal to that mapping, and
\* no other.
C22_DeepEquality ==
  \A c \in 1..Len(calls) :
    (Done(c, "find") /\ Unpaged(c) /\ calls[c].query # <<>>) =>
      \A f \in DOMAIN calls[c].query[1] \cap CompoundFields :
        calls[c].query[1][f].plain =>
          \A j \in 1..Len(calls[c].res.found) :
            LET doc == calls[c].res.found[j]
            IN Has(doc, f) /\ doc[f] = calls[c].query[1][f].val

\* The operators #matchQuery knows, $regex apart.
Known == {"$eq", "$ne", "$gt", "$gte", "$lt", "$lte", "$in", "$nin"}

\* Operator op with operand y holds for field f of doc; a missing field is
\* undefined, which differs from every operand and compares false.
OpHolds(doc, f, op, y) ==
  IF ~Has(doc, f) THEN op \in {"$ne", "$nin"}
  ELSE CASE op = "$eq" -> doc[f] = y
         [] op = "$ne" -> doc[f] # y
         [] op = "$gt" -> doc[f] > y
         [] op = "$gte" -> doc[f] >= y
         [] op = "$lt" -> doc[f] < y
         [] op = "$lte" -> doc[f] <= y
         [] op = "$in" -> \E i \in 1..Len(y) : y[i] = doc[f]
         [] op = "$nin" -> \A i \in 1..Len(y) : y[i] # doc[f]

\* The query of call c is given and each of its conditions is an operator
\* object.
OperatorQuery(c) ==
  /\ calls[c].query \notin {<<>>, <<EmptyDoc>>}
  /\ \A f \in DOMAIN calls[c].query[1] : ~calls[c].query[1][f].plain

\* C23: a find whose conditions are operator objects on number and string
\* fields returns the documents for which every operator among $eq, $ne,
\* $gt, $gte, $lt, $lte, $in, $nin holds for the field; other operator keys
\* change nothing; for a document without the field $ne and $nin hold and
\* the other six fail.
C23_Operators ==
  \A c \in 1..Len(calls) :
    (Done(c, "find") /\ Unpaged(c) /\ OperatorQuery(c)) =>
      LET q == calls[c].query[1]
      IN calls[c].res.found =
           Filter(Data,
             {i \in 1..Len(Data) :
                \A f \in DOMAIN q :
                  \A op \in DOMAIN q[f].ops \cap Known :
                    OpHolds(Data[i], f, op, q[f].ops[op])})

\* A find with an unknown operator key next to $lte has returned the two
\* documents that hold the field, and not the one that lacks it.
C23_Witness ==
  \E c \in 1..Len(calls) :
    /\ Done(c, "find") /\ Unpaged(c) /\ OperatorQuery(c)
    /\ DOMAIN calls[c].query[1] = {"v"}
    /\ DOMAIN calls[c].query[1]["v"].ops = {"$foo", "$lte"}
    /\ Len(calls[c].res.found) = 2
    /\ Len(Data) = 3
    /\ ~Has(Data[2], "v")

\* The documents of m after the first skip, cut to limit of them when limit
\* is not 0.
Page(m, limit, skip) ==
  IF skip >= Len(m) THEN <<>>
  ELSE SubSeq(m, skip + 1,
              IF limit = 0 \/ skip + limit > Len(m) THEN Len(m) ELSE skip + limit)

\* C24: a find returns the matching documents, sorted when a sort is given,
\* without the first skip of them and cut to limit of them when limit is
\* not 0; the result is a sequence, empty when nothing matches or skip is
\* not less than the number of matches.
C24_Pipeline ==
  \A c \in 1..Len(calls) :
    Done(c, "find") =>
      LET hit == {i \in 1..Len(Data) : matches(Data[i], calls[c].query)}
          m == IF calls[c].sort = <<>> THEN Filter(Data, hit)
               ELSE sort(Filter(Data, hit), calls[c].sort[1])
          found == calls[c].res.found
      IN /\ found = Page(m, calls[c].limit, calls[c].skip)
         /\ DOMAIN found = 1..Len(found)
         /\ (hit = {} \/ calls[c].skip >= Cardinality(hit)) => found = <<>>

\* A sorted find with skip 1 and limit 1 over three matching documents has
\* returned the second of them in sort order, which is not the second of
\* the collection.
C24_Witness ==
  \E c \in 1..Len(calls) :
    /\ Done(c, "find")
    /\ calls[c].skip = 1 /\ calls[c].limit = 1 /\ calls[c].sort # <<>>
    /\ Len(Data) = 3
    /\ \A i \in 1..3 : matches(Data[i], calls[c].query)
    /\ Len(calls[c].res.found) = 1
    /\ calls[c].res.found[1] # Data[2]

\* Call c is a find that returned, sorted by a specification with at least
\* one field.
SortedBy(c) ==
  /\ calls[c].pc = "done" /\ calls[c].op = "find"
  /\ calls[c].sort # <<>>
  /\ calls[c].sort[1] # <<>>
SortField(c, n) == calls[c].sort[1][n][1]
SortOrder(c, n) == calls[c].sort[1][n][2]
\* x comes no later than y in numeric order, for the direction given.
InOrder(x, y, order) == IF order = -1 THEN x >= y ELSE x <= y

\* C25: in the result of a find sorted by two fields, two documents that
\* are equal on the first field stand in the order of the second field.
C25_TieBreak ==
  \A c \in 1..Len(calls) :
    (SortedBy(c) /\ Len(calls[c].sort[1]) = 2) =>
      LET found == calls[c].res.found
          f == SortField(c, 1)
          g == SortField(c, 2)
      IN \A j \in 1..Len(found) : \A k \in (j + 1)..Len(found) :
           (/\ Has(found[j], f) /\ Has(found[k], f)
            /\ Has(found[j], g) /\ Has(found[k], g)
            /\ found[j][f] = found[k][f])
             => InOrder(found[j][g], found[k][g], SortOrder(c, 2))

\* C26: in the result of a find sorted by a number field, the documents
\* that hold a number there stand in numeric order, rising for an
\* ascending sort and falling for a descending one; a findOne sorted by a
\* number field returns a document no matching document goes before.
C26_NumericOrder ==
  /\ \A c \in 1..Len(calls) :
       (SortedBy(c) /\ SortField(c, 1) \in NumFields) =>
         LET found == calls[c].res.found
             f == SortField(c, 1)
         IN \A j \in 1..Len(found) : \A k \in (j + 1)..Len(found) :
              (Has(found[j], f) /\ Has(found[k], f))
                => InOrder(found[j][f], found[k][f], SortOrder(c, 1))
  /\ \A c \in 1..Len(calls) :
       (/\ Done(c, "findOne")
        /\ calls[c].sort # <<>> /\ calls[c].sort[1] # <<>>
        /\ SortField(c, 1) \in NumFields
        /\ calls[c].res.found # <<>>
        /\ Has(calls[c].res.found[1], SortField(c, 1))) =>
         \A i \in 1..Len(Data) :
           (matches(Data[i], calls[c].query) /\ Has(Data[i], SortField(c, 1)))
             => InOrder(calls[c].res.found[1][SortField(c, 1)],
                        Data[i][SortField(c, 1)], SortOrder(c, 1))

\* C27: in the result of a find sorted ascending, no document that holds
\* the sort field stands before a document that lacks it.
C27_AbsentFirst ==
  \A c \in 1..Len(calls) :
    (SortedBy(c) /\ SortOrder(c, 1) = 1) =>
      LET found == calls[c].res.found
          f == SortField(c, 1)
      IN \A j \in 1..Len(found) : \A k \in (j + 1)..Len(found) :
           ~(Has(found[j], f) /\ ~Has(found[k], f))

\* The specification findOne sorts by: the one given, or { _id: -1 }.
GivenSort(c) ==
  IF calls[c].sort = <<>> THEN << <<"_id", -1>> >> ELSE calls[c].sort[1]

ReadOnlyOps == {"find", "findOne", "findById", "count"}

\* C29: a step that runs a find, findOne, findById or count leaves the
\* sequence of the handle it ran on as it was, document for document,
\* starts no write and leaves the file alone; the call returns in that
\* step.
C29_ReadsChangeNothing ==
  [][\A c \in 1..Len(calls') :
       (Ran(c) /\ calls'[c].op \in ReadOnlyOps) =>
         /\ Untouched(c)
         /\ calls'[c].pc = "done"
         /\ \A h \in 1..Len(handles) : handles'[h] = handles[h]]_vars

\* A find sorted descending has returned three documents in another order
\* than the collection's, and the handle still holds the collection's.
C29_Witness ==
  \E c \in 1..Len(calls) :
    /\ Done(c, "find")
    /\ calls[c].sort # <<>>
    /\ Len(calls[c].res.found) = 3
    /\ calls[c].res.found # Data
    /\ Data = file
    /\ ~handles[cache].locked

\* C30: count with a query is the number of documents find returns for
\* that query with no limit and no skip, and count with no query or the
\* empty query is the size of the collection; a count call returns that
\* number.
C30_CountIsFindLength ==
  /\ cache # NoHandle =>
       \A q \in ReadQueryArgs :
         /\ count(Data, q) = Len(find(Data, q, 0, 0, <<>>).res.found)
         /\ q \in {<<>>, <<EmptyDoc>>} => count(Data, q) = Len(Data)
  /\ \A c \in 1..Len(calls) :
       Done(c, "count") =>
         calls[c].res.count
           = Len(find(Data, calls[c].query, 0, 0, <<>>).res.found)

\* A count with a query has returned 2 for a collection of three documents.
C30_Witness ==
  \E c \in 1..Len(calls) :
    /\ Done(c, "count")
    /\ calls[c].query \notin {<<>>, <<EmptyDoc>>}
    /\ calls[c].res.count = 2
    /\ Len(Data) = 3

\* new is old without some of its documents, the others in their order.
Subsequence(new, old) ==
  \E hit \in SUBSET (1..Len(old)) :
    /\ Len(new) = Len(old) - Cardinality(hit)
    /\ \A j \in 1..Len(new) : new[j] = old[NthKept(old, hit, j)]

\* new has at each position the document old has there, as it was or with
\* the fields of doc and updatedAt written over.
SamePositions(new, old, doc) ==
  /\ Len(new) = Len(old)
  /\ \A i \in 1..Len(old) :
       \/ new[i] = old[i]
       \/ \A f \in (DOMAIN old[i]) \ (DOMAIN doc \cup {"updatedAt"}) :
            Has(new[i], f) /\ new[i][f] = old[i][f]

\* C36: every operation keeps the order of insertion.  A createOne, a
\* createMany and an inserting upsertOne leave the documents there were
\* where they were and put the new ones after them; an updateOne, an
\* updateMany and an updating upsertOne leave every document at its
\* position; a deleteOne and a deleteMany leave the remaining documents in
\* their order; a sorted find or findOne leaves the stored sequence as it
\* was.
C36_InsertionOrder ==
  [][\A c \in 1..Len(calls') :
       Ran(c) =>
         LET op == calls'[c].op
             old == Before(RanOn(c))
             new == handles'[RanOn(c)].data
         IN /\ op \in {"createOne", "createMany"} =>
                 /\ Len(new) >= Len(old)
                 /\ SubSeq(new, 1, Len(old)) = old
            /\ op = "upsertOne" =>
                 IF Len(new) > Len(old)
                 THEN /\ Len(new) = Len(old) + 1
                      /\ SubSeq(new, 1, Len(old)) = old
                 ELSE SamePositions(new, old, calls'[c].doc)
            /\ op \in {"updateOne", "updateMany"} =>
                 SamePositions(new, old, calls'[c].doc)
            /\ op \in {"deleteOne", "deleteMany"} => Subsequence(new, old)
            /\ op \in {"find", "findOne"} => new = old]_vars

\* A deleteOne has removed the first of three documents and left the other
\* two in their order.
C36_Witness ==
  \E c \in 1..Len(calls) :
    /\ calls[c].op = "deleteOne" /\ calls[c].pc = "writing"
    /\ Len(file) = 3
    /\ handles[calls[c].h].data = <<file[2], file[3]>>

\* What the result a call returned says it added to the collection: 1 for
\* a createOne, insertedCount, upsertedCount, less deletedCount.
Gain(call) ==
  (IF call.op = "createOne" /\ call.res.ids # <<>> THEN 1 ELSE 0)
  + call.res.inserted + call.res.upserted - call.res.deleted

\* The sum of Gain over the first n calls of cs.
RECURSIVE Net(_, _)
Net(cs, n) == IF n = 0 THEN 0 ELSE Net(cs, n - 1) + Gain(cs[n])

\* C40: the size of the collection less what the results returned so far
\* say was added stays what it was, so a collection that started empty has
\* as many documents as the insertedCount (1 for a createOne) and
\* upsertedCount returned add up to, less the deletedCount returned; an
\* updateOne or updateMany leaves the size as it was.
C40_SizeAccounting ==
  [][\A c \in 1..Len(calls') :
       Ran(c) =>
         LET old == Before(RanOn(c))
             new == handles'[RanOn(c)].data
         IN /\ Len(new) - Net(calls', Len(calls'))
                 = Len(old) - Net(calls, Len(calls))
            /\ file = <<>> /\ Len(handles) = 0 =>
                 Len(new) = Net(calls', Len(calls'))
            /\ calls'[c].op \in {"updateOne", "updateMany"} =>
                 Len(new) = Len(old)]_vars

\* On a collection that started empty a createMany has returned
\* insertedCount 2 and a deleteOne after it deletedCount 1, and one
\* document is left.
C40_Witness ==
  /\ Len(calls) = 2
  /\ calls[1].op = "createMany" /\ calls[1].res.inserted = 2
  /\ calls[2].op = "deleteOne" /\ calls[2].res.deleted = 1
  /\ calls[2].pc = "done"
  /\ Len(file) = 1
  /\ Len(handles[cache].data) = Net(calls, 2)

\* Every call made so far has returned, none has thrown.
AllReturned == \A c \in 1..Len(calls) : calls[c].pc = "done"

\* C33: when every call has returned successfully, the documents a read
\* gets from the cached handle are the documents the file holds, which are
\* the ones a read gets after close() from the handle the reload creates:
\* same documents, same fields and values, same order.
C33_CloseKeepsReads ==
  (AllReturned /\ cache # NoHandle) => NewHandle(file).data = handles[cache].data

\* The same with the documents compared as JSON.stringify writes them.
C33_CloseKeepsReadsAsJson ==
  (AllReturned /\ cache # NoHandle) => file = ToJSON(handles[cache].data)

\* Call c was made when an earlier call had returned: with no close() the
\* handle was cached by then.
MadeOnceCached(c) == \E c1 \in 1..(c - 1) : c1 \notin calls[c].during

\* C38: with no close() and calls that only insert and read, run one after
\* another in call order, every document inserted is in the sequence at
\* the end.  So when a createOne made once the handle was cached has run,
\* possibly while other calls were in flight, the in-memory sequence of
\* the collection holds the document it inserted.
C38_Linearizable ==
  (closes = 0 /\ OnlyOps({"createOne", "findById"})) =>
    \A c \in 1..Len(calls) :
      (/\ calls[c].op = "createOne"
       /\ calls[c].pc \in {"writing", "done"}
       /\ MadeOnceCached(c))
        => Holds(handles[cache].data, InsertedId(c))

\* The same for behaviours in which one handle was ever created.
C38_LinearizableOneHandle ==
  Len(handles) <= 1 => C38_Linearizable

(***************************************************************************)
(* The MongoDB connector: connect(), db() and close() of MongoConnector.   *)
(* mongo.client is #mongoClient: 0 for null, otherwise the number of the   *)
(* call whose MongoClient.connect returned it; mongo.connects counts the   *)
(* invocations of MongoClient.connect.                                     *)
(***************************************************************************)
\* Number of connect() and db() calls in one behaviour.
MaxDbCalls == 3
\* Number of close() calls in one behaviour.
MaxMongoCloses == 1

MongoCall(op, pc, got) ==
  [op |-> op, pc |-> pc, got |-> got,
   during |-> {c \in 1..Len(mongo.calls) : mongo.calls[c].pc # "done"},
   closes |-> mongo.closes]

\* connect(), mongo.ts 30-37, up to `await MongoClient.connect(...)`
MongoConnect ==
  /\ Len(mongo.calls) < MaxDbCalls
  /\ mongo' = [mongo EXCEPT !.connects = @ + 1,
                            !.calls = Append(@, MongoCall("connect", "connecting", 0))]
  /\ UNCHANGED <<file, cache, handles, calls, clock, oid, closes, named>>

\* db(), mongo.ts 41-50: with no client it awaits connect(); with a client
\* it returns #db.
MongoDb ==
  /\ Len(mongo.calls) < MaxDbCalls
  /\ mongo' =
       IF mongo.client = 0
       THEN [mongo EXCEPT !.connects = @ + 1,
                          !.calls = Append(@, MongoCall("db", "connecting", 0))]
       ELSE [mongo EXCEPT !.calls = Append(@, MongoCall("db", "done", mongo.client))]
  /\ UNCHANGED <<file, cache, handles, calls, clock, oid, closes, named>>

\* MongoClient.connect of call c resolves: this.#mongoClient = <the client>;
\* this.#db = this.#mongoClient.db(...); connect() returns, and db()
\* returns this.#db.
MongoConnected(c) ==
  /\ c \in 1..Len(mongo.calls)
  /\ mongo.calls[c].pc = "connecting"
  /\ mongo' = [mongo EXCEPT !.client = c,
                            !.calls[c].pc = "done", !.calls[c].got = c]
  /\ UNCHANGED <<file, cache, handles, calls, clock, oid, closes, named>>

\* close(), mongo.ts 224-226: with a client, up to
\* `await this.#mongoClient.close()`; with none it returns.
MongoClose ==
  /\ mongo.closes < MaxMongoCloses
  /\ Len(mongo.calls) < MaxDbCalls + MaxMongoCloses
  /\ mongo' =
       [mongo EXCEPT
          !.closes = @ + 1,
          !.calls = Append(@, MongoCall("close",
                                IF mongo.client = 0 THEN "done" ELSE "closing",
                                mongo.client))]
  /\ UNCHANGED <<file, cache, handles, calls, clock, oid, closes, named>>

\* The client's close() of call c resolves, mongo.ts 227-229:
\* this.#mongoClient = null; this.#db = null
MongoClosed(c) ==
  /\ c \in 1..Len(mongo.calls)
  /\ mongo.calls[c].pc = "closing"
  /\ mongo' = [mongo EXCEPT !.client = 0, !.calls[c].pc = "done"]
  /\ UNCHANGED <<file, cache, handles, calls, clock, oid, closes, named>>

MongoInit ==
  /\ file = <<>>
  /\ cache = NoHandle
  /\ handles = <<>>
  /\ calls = <<>>
  /\ clock = 1
  /\ oid = 0
  /\ closes = 0
  /\ named = NoneNamed
  /\ mongo = NewMongo

MongoNext ==
  \/ MongoConnect
  \/ MongoDb
  \/ MongoClose
  \/ \E c \in 1..Len(mongo.calls) : MongoConnected(c)
  \/ \E c \in 1..Len(mongo.calls) : MongoClosed(c)

MongoSpec == MongoInit /\ [][MongoNext]_vars

\* Only db() calls have been made: no connect(), no close().
OnlyDbCalls == \A c \in 1..Len(mongo.calls) : mongo.calls[c].op = "db"

C37_ConnectOnceAwaited ==
  (/\ OnlyDbCalls
   /\ Len(mongo.calls) >= 1
   /\ \A c \in 1..Len(mongo.calls) : mongo.calls[c].during = {})
    => mongo.connects = 1

\* After close() has returned, the next db() call connects again: a db()
\* call made with no client, once a close() has returned, leaves its own
\* connection in #mongoClient when it returns.
C37_ReconnectAfterClose ==
  [][\A c \in 1..Len(mongo.calls) :
       (/\ mongo.calls[c].op = "db"
        /\ mongo.calls[c].closes >= 1
        /\ mongo.calls[c].during = {}
        /\ mongo.calls[c].pc = "connecting"
        /\ mongo'.calls[c].pc = "done")
         => mongo'.calls[c].got = c /\ mongo'.client = c]_vars

(***************************************************************************)
(* close() called while a mutating call waits for its write:               *)
(*   const p = low.createOne(...); low.close(); ... await p; ...           *)
(* The first call is a createOne; close() is called while it waits for     *)
(* db.write(); other calls are made from then on, before or after the      *)
(* first call returns.                                                     *)
(***************************************************************************)
\* The call that will be waiting for its write when close() is called.
CloseFirst(doc) == Len(calls) = 0 /\ CreateOne(doc)

\* close() while the first call is suspended at `await db.write()`
CloseWhileWriting == Len(calls) = 1 /\ calls[1].pc = "writing" /\ Close

\* Calls made once close() has returned.
CloseThenFindById(id) == closes = 1 /\ FindById(id)
CloseThenCreateOne(doc) == closes = 1 /\ CreateOne(doc)
CloseThenUpdateOne(doc) == closes = 1 /\ UpdateOne(doc)

CloseNext ==
  \/ \E doc \in CreateDocs : CloseFirst(doc)
  \/ CloseWhileWriting
  \/ \E id \in Ids : CloseThenFindById(id)
  \/ \E doc \in CreateDocs : CloseThenCreateOne(doc)
  \/ \E doc \in UpdateDocs : CloseThenUpdateOne(doc)
  \/ \E c \in 1..Len(calls) : LoadRead(c)
  \/ \E c \in 1..Len(calls) : LoadDone(c)
  \/ \E h \in 1..Len(handles) : WriteDone(h)

CloseSpec == Init /\ [][CloseNext]_vars

\* Call c was made when the first call had returned and close() too.
AfterFirstAndClose(c) == c > 1 /\ 1 \notin calls[c].during /\ closes = 1

\* C39: the createOne that was waiting for its write when close() was
\* called is not lost.  Once it has returned, the file holds the document
\* it inserted, whatever has been written since, and a findById of that
\* document made after it returned finds it.
C39_WriteSurvivesClose ==
  (closes = 1 /\ calls[1].pc = "done") =>
    /\ Holds(file, InsertedId(1))
    /\ \A c \in 1..Len(calls) :
         (/\ AfterFirstAndClose(c)
          /\ Done(c, "findById")
          /\ calls[c].id = InsertedId(1))
           => calls[c].res.found # <<>>

\* The same when no call is made between close() and the return of the
\* first call.
C39_WriteSurvivesCloseAlone ==
  (\A c \in 2..Len(calls) : 1 \notin calls[c].during)
    => C39_WriteSurvivesClose

(***************************************************************************)
(* Failing storage.  The file may hold content JSON.parse rejects, and a   *)
(* write may fail.  The caller awaits each mutating call and each call     *)
(* that has to load the collection; reads are made at any time, also      *)
(* while a mutating call waits for its write.                              *)
(***************************************************************************)
\* Number of calls the caller makes in one behaviour.
MaxAttempts == 3

\* Content that is not JSON: JSONFilePreset rejects with a SyntaxError.
Unreadable == << [error |-> "SyntaxError"] >>

FaultFiles == InitFiles \cup { Unreadable }

Loading == \E c \in 1..Len(calls) : calls[c].pc = "loading"

\* A read made while a write is pending waits at a first await of its own
\* rather than running on the cached handle.
AttemptAfterWrite(call) ==
  /\ Len(calls) < MaxAttempts
  /\ ~Loading
  /\ call.op \in MutatingOps => \A c \in 1..Len(calls) : ~InFlight(c)
  /\ IF cache # NoHandle /\ ~handles[cache].locked
     THEN Run(Len(calls) + 1, cache, handles, Append(calls, call))
     ELSE /\ calls' = Append(calls, call)
          /\ UNCHANGED <<handles, clock, oid>>
  /\ UNCHANGED <<file, cache, closes, named, mongo>>

\* collection(name), lowdb.ts 34-38, then the operation, as in Invoke.
Attempt(call) ==
  /\ Len(calls) < MaxAttempts
  /\ ~Loading
  /\ call.op \in MutatingOps => \A c \in 1..Len(calls) : ~InFlight(c)
  /\ IF cache # NoHandle
     THEN Run(Len(calls) + 1, cache, handles, Append(calls, call))
     ELSE /\ calls' = Append(calls, call)
          /\ UNCHANGED <<handles, clock, oid>>
  /\ UNCHANGED <<file, cache, closes, named, mongo>>

AttemptCreateOne(doc) == Attempt(NewCall("createOne", doc, <<>>, "", EmptyDoc))
AttemptUpdateOne(doc) == Attempt(NewCall("updateOne", doc, <<>>, "", EmptyDoc))
AttemptDeleteOne(id) == Attempt(NewCall("deleteOne", EmptyDoc, <<>>, id, EmptyDoc))
AttemptFind == Attempt(NewCall("find", EmptyDoc, <<>>, "", <<>>))
AttemptFindOne == Attempt(NewCall("findOne", EmptyDoc, <<>>, "", <<>>))
AttemptFindById(id) == Attempt(NewCall("findById", EmptyDoc, <<>>, id, EmptyDoc))
AttemptCount == Attempt(NewCall("count", EmptyDoc, <<>>, "", <<>>))

\* JSONFilePreset resolves: the content is JSON.
LoadOk(c) == file # Unreadable /\ LoadDone(c)

\* A failed load taken for an empty collection: a handle on [] is cached
\* and the operation runs on it.
LoadFailAsEmpty(c) ==
  /\ c \in 1..Len(calls)
  /\ calls[c].pc = "loading"
  /\ file = Unreadable
  /\ cache' = Len(handles) + 1
  /\ Run(c, Len(handles) + 1, Append(handles, NewHandle(<<>>)), calls)
  /\ UNCHANGED <<file, closes, named, mongo>>

\* JSONFilePreset rejects: `await JSONFilePreset(...)` throws, the
\* assignment to this.#collections[name] is not made, and the operation
\* throws at `await this.collection(coll)`.
LoadFail(c) ==
  /\ c \in 1..Len(calls)
  /\ calls[c].pc = "loading"
  /\ file = Unreadable
  /\ calls' = [calls EXCEPT ![c].pc = "failed"]
  /\ UNCHANGED <<file, cache, handles, clock, oid, closes, named, mongo>>

\* The file is replaced, from outside the program, by one that is JSON.
Restore ==
  /\ file = Unreadable
  /\ file' \in InitFiles
  /\ UNCHANGED <<cache, handles, calls, clock, oid, closes, named, mongo>>

\* A failed write that puts the sequence back to what the file holds.
WriteFailRollback(h) ==
  /\ h \in 1..Len(handles)
  /\ handles[h].locked
  /\ handles[h].next = <<>>
  /\ handles' = [handles EXCEPT ![h] = NewHandle(file)]
  /\ calls' =
       [c \in 1..Len(calls) |->
          IF calls[c].pc = "writing" /\ calls[c].h = h
          THEN [calls[c] EXCEPT !.pc = "failed", !.w = "none"]
          ELSE calls[c]]
  /\ UNCHANGED <<file, cache, clock, oid, closes, named, mongo>>

\* The write of handle h fails, with no other write pending: the file is
\* left as it is, the writer is idle again, and `await db.write()` throws
\* in the call that wrote; db.data keeps what the call assigned.
WriteFail(h) ==
  /\ h \in 1..Len(handles)
  /\ handles[h].locked
  /\ handles[h].next = <<>>
  /\ handles' = [handles EXCEPT ![h] = [@ EXCEPT !.locked = FALSE, !.cur = <<>>]]
  /\ calls' =
       [c \in 1..Len(calls) |->
          IF calls[c].pc = "writing" /\ calls[c].h = h
          THEN [calls[c] EXCEPT !.pc = "failed", !.w = "none"]
          ELSE calls[c]]
  /\ UNCHANGED <<file, cache, clock, oid, closes, named, mongo>>

FaultInit ==
  /\ file \in FaultFiles
  /\ cache = NoHandle
  /\ handles = <<>>
  /\ calls = <<>>
  /\ clock = 1
  /\ oid = 0
  /\ closes = 0
  /\ named = NoneNamed
  /\ mongo = NewMongo

FaultNext ==
  \/ \E doc \in CreateDocs : AttemptCreateOne(doc)
  \/ \E doc \in UpdateDocs : AttemptUpdateOne(doc)
  \/ \E id \in DeleteIds : AttemptDeleteOne(id)
  \/ AttemptFind
  \/ AttemptFindOne
  \/ \E id \in Ids : AttemptFindById(id)
  \/ AttemptCount
  \/ \E c \in 1..Len(calls) : LoadOk(c)
  \/ \E c \in 1..Len(calls) : LoadFail(c)
  \/ Restore
  \/ \E h \in 1..Len(handles) : WriteDone(h)
  \/ \E h \in 1..Len(handles) : WriteFail(h)

FaultSpec == FaultInit /\ [][FaultNext]_vars

\* A call made in this step.
Made(c) == c = Len(calls') /\ Len(calls') = Len(calls) + 1

\* Mutating call m waits for its write on the cached handle.
WaitsForWrite(m) ==
  /\ cache # NoHandle
  /\ calls[m].op \in MutatingOps
  /\ calls[m].pc = "writing"
  /\ calls[m].h = cache

\* C35: a find, findOne, findById or count made while a mutating call on
\* the loaded collection waits for its write returns in the step it is
\* made, with the write still in flight and the file as it was, and its
\* result is the one the operation gives on the in-memory sequence, which
\* holds the mutation: the document a waiting createOne inserted is found
\* by findById and find and counted by count.
C35_ReadsDoNotWait ==
  [][\A c \in 1..Len(calls'), m \in 1..Len(calls) :
       (Made(c) /\ calls'[c].op \in ReadOnlyOps /\ WaitsForWrite(m)) =>
         /\ calls'[c].pc = "done"
         /\ handles'[cache].locked /\ calls'[m].pc = "writing" /\ file' = file
         /\ calls'[c].res = Apply(calls'[c], handles[cache].data, clock, oid).res
         /\ (calls[m].op = "createOne" /\ calls'[c].op = "findById"
               /\ calls'[c].id = InsertedId(m))
              => calls'[c].res.found # <<>>
         /\ (calls[m].op = "createOne" /\ calls'[c].op = "count")
              => /\ calls'[c].res.count = Len(handles[cache].data)
                 /\ Holds(handles[cache].data, InsertedId(m))
         /\ (calls[m].op = "createOne" /\ calls'[c].op = "find")
              => Holds(calls'[c].res.found, InsertedId(m))
         /\ calls'[c].op = "find"
              => calls'[c].res.found = handles[cache].data]_vars

\* A read made while a createOne waited for its write has returned the
\* document, which the file does not hold yet.
C35_Witness ==
  \E c \in 1..Len(calls), m \in 1..Len(calls) :
    /\ WaitsForWrite(m)
    /\ calls[m].op = "createOne"
    /\ m \in calls[c].during
    /\ Done(c, "findById")
    /\ calls[c].res.found # <<>>
    /\ calls[c].id = InsertedId(m)
    /\ ~Holds(file, InsertedId(m))

\* The write of call c fails in this step.
WriteFails(c) ==
  /\ c \in 1..Len(calls)
  /\ calls[c].pc = "writing"
  /\ calls'[c].pc = "failed"

\* The write of call c has failed: only a call that reached
\* `await db.write()` has a handle recorded.
WriteFailed(c) == calls[c].pc = "failed" /\ calls[c].h # NoHandle

\* C31: when the write of a mutating call fails, the call throws; the
\* writer is idle afterwards and starts again only when a mutating call
\* runs (one attempt, no retry); the in-memory sequence keeps the mutation
\* and the file is as it was; and a find, findById or count made afterwards
\* runs on that same handle and returns what the in-memory sequence holds.
C31_WriteFailure ==
  [][/\ \A c \in 1..Len(calls) :
          WriteFails(c) =>
            /\ calls'[c].pc = "failed"
            /\ ~handles'[calls[c].h].locked
            /\ handles'[calls[c].h].data = handles[calls[c].h].data
            /\ file' = file
            /\ cache' = calls[c].h
     /\ \A h \in 1..Len(handles) :
          (~handles[h].locked /\ handles'[h].locked) =>
            \E c \in 1..Len(calls') :
              Ran(c) /\ calls'[c].op \in MutatingOps /\ calls'[c].h = h
     /\ \A c \in 1..Len(calls'), f \in 1..Len(calls) :
          (/\ Made(c)
           /\ calls'[c].op \in {"find", "findById", "count"}
           /\ WriteFailed(f))
            => /\ calls'[c].pc = "done"
               /\ cache = calls[f].h
               /\ calls'[c].res
                    = Apply(calls'[c], handles[calls[f].h].data, clock, oid).res
               /\ handles'[cache].data = handles[cache].data]_vars

\* A createOne's write has failed, and a findById made afterwards has
\* returned its document, which the file does not hold.
C31_Witness ==
  \E c \in 1..Len(calls), f \in 1..Len(calls) :
    /\ f < c
    /\ calls[f].op = "createOne"
    /\ WriteFailed(f)
    /\ Done(c, "findById")
    /\ calls[c].id = InsertedId(f)
    /\ calls[c].res.found # <<>>
    /\ ~Holds(file, InsertedId(f))
    /\ \A h \in 1..Len(handles) : ~handles[h].locked

\* The load of call c fails in this step.
LoadFails(c) ==
  /\ c \in 1..Len(calls)
  /\ calls[c].pc = "loading"
  /\ file = Unreadable
  /\ calls'[c].pc # "loading"

\* C32: when the file cannot be decoded, the operation that started the
\* load throws and returns no result; no handle is created or cached; and
\* every call made while no handle is cached starts a load of its own,
\* which gives the documents of the file once the file is readable.
C32_LoadFailure ==
  [][/\ \A c \in 1..Len(calls) :
          LoadFails(c) =>
            /\ calls'[c].pc = "failed"
            /\ calls'[c].res = NoResult
            /\ cache' = NoHandle
            /\ handles' = handles
            /\ file' = file
     /\ \A c \in 1..Len(calls') :
          (Made(c) /\ cache = NoHandle) =>
            calls'[c].pc = "loading" /\ handles' = handles
     /\ \A c \in 1..Len(calls) :
          (calls[c].pc = "loading" /\ calls'[c].pc # "loading"
             /\ file # Unreadable)
            => /\ Len(handles') = Len(handles) + 1
               /\ cache' = Len(handles')
               /\ calls[c].op \in ReadOnlyOps
                    => /\ handles'[cache'].data = file
                       /\ calls'[c].res = Apply(calls[c], file, clock, oid).res]_vars

\* A load has failed, the file has been restored with documents in it, and
\* a find made afterwards has loaded it and returned the documents.
C32_Witness ==
  \E c \in 1..Len(calls), f \in 1..Len(calls) :
    /\ f < c
    /\ calls[f].pc = "failed"
    /\ calls[f].h = NoHandle
    /\ calls[f].op = "find"
    /\ Done(c, "find")
    /\ calls[c].res.found # <<>>
    /\ calls[c].res.found = NewHandle(file).data

(***************************************************************************)
(* One connector used for two collections.  named.files[n] is the content  *)
(* of <dbPath>/<n>.json, named.cache[n] is #collections[n]; every handle   *)
(* writes to the file it was loaded from.                                  *)
(***************************************************************************)
\* Number of calls made on the connector in one behaviour.
MaxNamedCalls == 2

\* The collection whose writes may never complete.
Stalled == "x"

\* The document the callers insert.
NamedDoc == [v |-> 1]

NamedCall(coll, op, doc, id) ==
  [name |-> coll, op |-> op, doc |-> doc, docs |-> <<>>, id |-> id,
   query |-> <<>>, limit |-> 0, skip |-> 0, sort |-> <<>>,
   pc |-> "loading", h |-> NoHandle, w |-> "none", res |-> NoResult,
   during |-> {c \in 1..Len(named.calls) :
                 named.calls[c].pc \notin {"done", "failed"}}]

\* JSONFilePreset(path.join(dbPath, name + ".json"), [])
NamedHandle(coll, data) ==
  [name |-> coll, data |-> data, locked |-> FALSE, cur |-> <<>>, next |-> <<>>]

\* Call c runs on handle h, as in Run; cached is #collections as the call
\* leaves it.
NamedRun(c, h, hs, cs, cached) ==
  \E now \in ClockReads :
    LET r == Apply(cs[c], hs[h].data, now, oid)
    IN /\ r.timed \/ now = clock
       /\ clock' = now
       /\ oid' = oid + r.oids
       /\ named' =
            [named EXCEPT
               !.cache = cached,
               !.handles = IF r.write THEN [hs EXCEPT ![h] = StartWrite(@, r.data)]
                           ELSE hs,
               !.calls =
                 [cs EXCEPT ![c] =
                    IF ~r.ok THEN [@ EXCEPT !.pc = "failed"]
                    ELSE IF r.write
                    THEN [@ EXCEPT !.pc = "writing", !.h = h, !.res = r.res,
                                   !.w = IF hs[h].locked THEN "next" ELSE "head"]
                    ELSE [@ EXCEPT !.pc = "done", !.res = r.res]]]

\* collection(name), lowdb.ts 34-38, then the operation.
NamedInvoke(call) ==
  /\ Len(named.calls) < MaxNamedCalls
  /\ IF named.cache[call.name] # NoHandle
     THEN NamedRun(Len(named.calls) + 1, named.cache[call.name], named.handles,
                   Append(named.calls, call), named.cache)
     ELSE /\ named' = [named EXCEPT !.calls = Append(@, call)]
          /\ UNCHANGED <<clock, oid>>
  /\ UNCHANGED <<file, cache, handles, calls, closes, mongo>>

NamedCreateOne(name, doc) == NamedInvoke(NamedCall(name, "createOne", doc, ""))
NamedFind(name) == NamedInvoke(NamedCall(name, "find", EmptyDoc, ""))

\* A load that caches the handle under every name.
NamedLoadDoneShared(c) ==
  /\ c \in 1..Len(named.calls)
  /\ named.calls[c].pc = "loading"
  /\ NamedRun(c, Len(named.handles) + 1,
              Append(named.handles,
                     NamedHandle(named.calls[c].name,
                                 named.files[named.calls[c].name])),
              named.calls,
              [n \in Names |-> Len(named.handles) + 1])
  /\ UNCHANGED <<file, cache, handles, calls, closes, mongo>>

\* this.#collections[name] = await JSONFilePreset(...), and the operation
\* goes on with the handle.
NamedLoadDone(c) ==
  /\ c \in 1..Len(named.calls)
  /\ named.calls[c].pc = "loading"
  /\ NamedRun(c, Len(named.handles) + 1,
              Append(named.handles,
                     NamedHandle(named.calls[c].name,
                                 named.files[named.calls[c].name])),
              named.calls,
              [named.cache EXCEPT ![named.calls[c].name] = Len(named.handles) + 1])
  /\ UNCHANGED <<file, cache, handles, calls, closes, mongo>>

\* The write of handle h reaches its file, as in WriteDone.
NamedWriteDone(h) ==
  /\ h \in 1..Len(named.handles)
  /\ named.handles[h].locked
  /\ LET more == named.handles[h].next # <<>>
     IN named' =
          [named EXCEPT
             !.files[named.handles[h].name] = named.handles[h].cur,
             !.handles[h] =
               IF more THEN [@ EXCEPT !.cur = named.handles[h].next[1], !.next = <<>>]
               ELSE [@ EXCEPT !.locked = FALSE, !.cur = <<>>],
             !.calls =
               [c \in 1..Len(named.calls) |->
                  IF named.calls[c].pc = "writing" /\ named.calls[c].h = h
                  THEN IF named.calls[c].w = "prev"
                          \/ (named.calls[c].w = "head" /\ ~more)
                       THEN [named.calls[c] EXCEPT !.pc = "done", !.w = "none"]
                       ELSE IF named.calls[c].w = "next"
                       THEN [named.calls[c] EXCEPT !.w = "prev"]
                       ELSE named.calls[c]
                  ELSE named.calls[c]]]
  /\ UNCHANGED <<file, cache, handles, calls, clock, oid, closes, mongo>>

NamedInit ==
  /\ file = <<>>
  /\ cache = NoHandle
  /\ handles = <<>>
  /\ calls = <<>>
  /\ clock = 1
  /\ oid = 0
  /\ closes = 0
  /\ named \in {[NoneNamed EXCEPT !.files = fs] : fs \in [Names -> InitFiles]}
  /\ mongo = NewMongo

NamedNext ==
  \/ \E name \in Names : NamedCreateOne(name, NamedDoc)
  \/ \E name \in Names : NamedFind(name)
  \/ \E c \in 1..Len(named.calls) : NamedLoadDone(c)
  \/ \E h \in 1..Len(named.handles) : NamedWriteDone(h)

NamedSpec == NamedInit /\ [][NamedNext]_vars

\* Loads complete, and so do the writes of every collection but the
\* stalled one.
NamedFairSpec ==
  /\ NamedSpec
  /\ \A c \in 1..MaxNamedCalls : WF_vars(NamedLoadDone(c))
  /\ \A h \in 1..MaxNamedCalls :
       WF_vars(NamedWriteDone(h) /\ named.handles[h].name # Stalled)

\* The handles of collection n: their numbers, and what each holds.
HandlesOf(nd, n) == {h \in 1..Len(nd.handles) : nd.handles[h].name = n}

\* Something of collection n changes in this step: its file, its cached
\* handle, or the sequence or writer of one of its handles.
Touched(n) ==
  \/ named'.files[n] # named.files[n]
  \/ named'.cache[n] # named.cache[n]
  \/ HandlesOf(named', n) # HandlesOf(named, n)
  \/ \E h \in HandlesOf(named, n) : named'.handles[h] # named.handles[h]

\* The step is one of a call on collection n: the call is made, or goes on.
Acting(n) ==
  \E c \in 1..Len(named'.calls) :
    /\ named'.calls[c].name = n
    /\ c > Len(named.calls) \/ named'.calls[c] # named.calls[c]

NamedReturned(c) == named.calls[c].pc \in {"done", "failed"}

\* C34: operations on different collections are independent.  A step
\* changes the file, the cached handle or a handle of a collection only
\* when it is a step of a call on that collection, and then it is a step of
\* no call on another one.  And when the writes of collection x never
\* complete, every call on another collection still returns.
C34_Independent ==
  /\ [][\A n \in Names :
          Touched(n) => (Acting(n) /\ \A m \in Names \ {n} : ~Acting(m) /\ ~Touched(m))]_vars
  /\ \A c \in 1..MaxNamedCalls :
       (c <= Len(named.calls) /\ named.calls[c].name # Stalled)
         ~> (c <= Len(named.calls) /\ NamedReturned(c))

\* A createOne on x is still waiting for its write, which has not reached
\* x.json, and a createOne on y made after it has returned with its
\* document in y.json.
C34_Witness ==
  \E c1 \in 1..Len(named.calls), c2 \in 1..Len(named.calls) :
    /\ c1 < c2
    /\ named.calls[c1].name = "x"
    /\ named.calls[c1].pc = "writing"
    /\ named.calls[c2].name = "y"
    /\ named.calls[c2].op = "createOne"
    /\ named.calls[c2].pc = "done"
    /\ Holds(named.files["y"], named.calls[c2].res.ids[1])
    /\ ~Holds(named.files["x"], named.calls[c1].res.ids[1])
====
